---- MODULE Spec2Model ----
(***************************************************************************)
(* TRACIENT income-pattern anomaly detection                               *)
(* (ai-model/anomaly_detection_model/detect_anomaly.py).                   *)
(*                                                                         *)
(* The model follows main(): the classifier is loaded once, then each case *)
(* is collected prompt by prompt (collect_worker_data,                     *)
(* collect_monthly_income, collect_pattern_data), scored by                *)
(* AnomalyDetector.detect when the classifier is available, run through    *)
(* rule_based_detection and assessed by display_results.                   *)
(*                                                                         *)
(* Numbers.  Python floats are modelled exactly, as records                *)
(*     [n, d, e, r]   standing for   (n / d)^(1/r) * 10^e                   *)
(* with n/d a reduced fraction, d > 0.  d = 0 marks a value that is not a  *)
(* finite number (n # 0: infinity, n = 0: NaN / a failed division).  r = 2 *)
(* is the square root np.std takes; e # 0 appears only for amounts far     *)
(* below one rupee and for quotients by them, so that the range of an IEEE *)
(* double (about 1.8 * 10^308) is part of the model.                       *)
(***************************************************************************)
EXTENDS Integers, Sequences, FiniteSets, TLC

\* ------------------------------------------------------------------------
\* Exact arithmetic
\* ------------------------------------------------------------------------

Abs(i) == IF i < 0 THEN -i ELSE i

RECURSIVE GCD(_, _)
GCD(a, b) == IF b = 0 THEN a ELSE GCD(b, a % b)

\* The reduced fraction n/d (d # 0), exponent 0, no root.
Num(n, d) ==
    LET g == GCD(Abs(n), Abs(d))
        s == IF d < 0 THEN -1 ELSE 1
    IN  [n |-> (s * n) \div g, d |-> (s * d) \div g, e |-> 0, r |-> 1]

Zero == Num(0, 1)
One == Num(1, 1)
Inf == [n |-> 1, d |-> 0, e |-> 0, r |-> 1]
NaN == [n |-> 0, d |-> 0, e |-> 0, r |-> 1]

IsFinite(x) == x.d # 0
IsZero(x) == x.d # 0 /\ x.n = 0
IsInteger(x) == x.d = 1 /\ x.e = 0 /\ x.r = 1

\* x * 10^k for a finite x written without root.
Scale10(x, k) == IF x.n = 0 THEN x ELSE [x EXCEPT !.e = @ + k]

\* Number of decimal digits of the integer part of a positive fraction.
RECURSIVE Digits(_)
Digits(i) == IF i < 10 THEN 1 ELSE 1 + Digits(i \div 10)

\* The largest decimal exponent of a finite IEEE double (sys.float_info.max_10_exp).
FloatMax10Exp == 308

\* A quotient of magnitude 10^309 or more is beyond the double range: inf.
Overflows(x) == x.n # 0 /\ x.e > 0 /\ Digits(Abs(x.n) \div x.d) + x.e - 1 > FloatMax10Exp

\* x squared, for x >= 0 when x carries a root.
Sq(x) ==
    IF ~IsFinite(x) THEN x
    ELSE IF x.r = 2 THEN [x EXCEPT !.r = 1, !.e = 2 * @]
    ELSE [Num(x.n * x.n, x.d * x.d) EXCEPT !.e = 2 * x.e]

\* The square root of a rootless x >= 0 whose exponent is even.
Sqrt(x) == IF ~IsFinite(x) \/ x.n = 0 THEN x ELSE [x EXCEPT !.r = 2, !.e = @ \div 2]

Sign(x) == IF x.n > 0 THEN 1 ELSE IF x.n < 0 THEN -1 ELSE 0

\* a < b for finite rootless a, b.  Exponents other than 0 are hundreds of
\* decades apart from every mantissa of the model, so they decide alone.
LtPlain(a, b) ==
    IF Sign(a) # Sign(b) THEN Sign(a) < Sign(b)
    ELSE IF a.e = b.e THEN a.n * b.d < b.n * a.d
    ELSE IF Sign(a) > 0 THEN a.e < b.e
    ELSE b.e < a.e

\* Python's a < b on floats: False whenever an operand is NaN.
Lt(a, b) ==
    IF (a.d = 0 /\ a.n = 0) \/ (b.d = 0 /\ b.n = 0) THEN FALSE
    ELSE IF a.d = 0 THEN a.n < 0 /\ ~(b.d = 0 /\ b.n < 0)
    ELSE IF b.d = 0 THEN b.n > 0
    ELSE IF a.r = 2 \/ b.r = 2
         THEN IF Sign(a) < 0 \/ Sign(b) < 0 THEN Sign(a) < 0 /\ Sign(b) >= 0
              ELSE LtPlain(Sq(a), Sq(b))
    ELSE LtPlain(a, b)

Gt(a, b) == Lt(b, a)
Le(a, b) == Lt(a, b) \/ (a = b /\ ~(a.d = 0 /\ a.n = 0))
Ge(a, b) == Le(b, a)

\* Sums, differences and products of finite rootless numbers.  Two numbers
\* of one exponent add as fractions; of two numbers whose exponents differ
\* the one of the smaller exponent is lost in the other's rounding.
Add(a, b) == IF ~IsFinite(a) \/ ~IsFinite(b) THEN NaN
             ELSE IF a.n = 0 THEN b
             ELSE IF b.n = 0 THEN a
             ELSE IF a.e < b.e THEN b
             ELSE IF b.e < a.e THEN a
             ELSE LET g == GCD(a.d, b.d)
                      sum == Num(a.n * (b.d \div g) + b.n * (a.d \div g),
                                 (a.d \div g) * b.d)
                  IN  IF sum.n = 0 THEN sum ELSE [sum EXCEPT !.e = a.e]
Neg(a) == [a EXCEPT !.n = -@]
Sub(a, b) == IF ~IsFinite(a) \/ ~IsFinite(b) THEN NaN ELSE Add(a, Neg(b))
Mul(a, b) == IF ~IsFinite(a) \/ ~IsFinite(b) THEN NaN
             ELSE LET g == GCD(Abs(a.n), b.d)
                      h == GCD(Abs(b.n), a.d)
                  IN  Num((a.n \div g) * (b.n \div h), (a.d \div h) * (b.d \div g))
AbsNum(a) == [a EXCEPT !.n = Abs(@)]

\* a / b.  A zero divisor gives no finite number (ZeroDivisionError for a
\* Python float, inf/nan for a numpy array); a quotient beyond the double
\* range is inf.  sqrt(v) / m = sqrt(v / m^2) for m > 0.
DivPlain(a, b) ==
    LET g == GCD(Abs(a.n), Abs(b.n))
        h == GCD(a.d, b.d)
        q == [Num((a.n \div g) * (b.d \div h), (a.d \div h) * (b.n \div g))
                EXCEPT !.e = a.e - b.e]
        z == IF q.n = 0 THEN Zero ELSE q
    IN  IF Overflows(z) THEN Inf ELSE z

Div(a, b) ==
    IF ~IsFinite(a) \/ ~IsFinite(b) \/ b.n = 0 THEN NaN
    ELSE IF a.r = 2 THEN Sqrt(DivPlain(Sq(a), Sq(b)))
    ELSE DivPlain(a, b)

RECURSIVE Sum(_)
Sum(s) == IF s = << >> THEN Zero ELSE Add(Head(s), Sum(Tail(s)))

RECURSIVE MaxOf(_)
MaxOf(s) == IF Len(s) = 1 THEN s[1]
            ELSE LET m == MaxOf(Tail(s)) IN IF Lt(m, s[1]) THEN s[1] ELSE m

RECURSIVE MinOf(_)
MinOf(s) == IF Len(s) = 1 THEN s[1]
            ELSE LET m == MinOf(Tail(s)) IN IF Lt(s[1], m) THEN s[1] ELSE m

\* ------------------------------------------------------------------------
\* Dictionaries (Python dict: a function on the set of its keys)
\* ------------------------------------------------------------------------

EmptyDict == [k \in {} |-> Zero]
Has(d, k) == k \in DOMAIN d
Get(d, k, default) == IF k \in DOMAIN d THEN d[k] ELSE default
Put(d, k, v) == [x \in (DOMAIN d) \cup {k} |-> IF x = k THEN v ELSE d[x]]
Remove(d, k) == [x \in (DOMAIN d) \ {k} |-> d[x]]

Range(s) == {s[i] : i \in DOMAIN s}

\* ------------------------------------------------------------------------
\* Constants of the program
\* ------------------------------------------------------------------------

JOB_SECTORS ==
    << "agricultural_labor", "construction", "domestic_work", "manufacturing",
       "retail_trade", "transport", "hospitality", "healthcare_support",
       "it_services", "govt_employee", "self_employed", "gig_worker",
       "skilled_artisan" >>

INCOME_TIERS == << "low", "medium", "high" >>

\* The keys of ANOMALY_DESCRIPTIONS, in the order of the table.
ANOMALY_DESCRIPTIONS ==
    << "sudden_spike", "high_volatility", "irregular_timing", "new_sources",
       "round_amounts", "structuring", "velocity_change", "dormant_burst",
       "pattern_break", "layering", "ghost_income", "weekend_heavy",
       "low_verification" >>

\* Python's None (no default given to a prompt).
None == [n |-> 0, d |-> 0, e |-> 0, r |-> 0]

\* ------------------------------------------------------------------------
\* What the user types at a prompt
\* ------------------------------------------------------------------------

\* kind "empty": just ENTER; "num": text that float() parses to val;
\* "text": any other text (s).
Empty == [kind |-> "empty", s |-> "", val |-> Zero]
Text(s) == [kind |-> "text", s |-> s, val |-> Zero]
Number(v) == [kind |-> "num", s |-> "", val |-> v]
NoResponse == [kind |-> "none", s |-> "", val |-> Zero]

Accept(v) == [ok |-> TRUE, value |-> v]
Reject == [ok |-> FALSE, value |-> None]

\* get_float as it would be if it clamped an answer outside the range to the
\* nearer end of the range instead of asking again.
get_float_clamping(response, min_val, max_val, default) ==
    IF response.kind = "empty" /\ default # None THEN Accept(default)
    ELSE IF response.kind # "num" THEN Reject
    ELSE IF Lt(response.val, min_val) THEN Accept(min_val)
    ELSE IF Lt(max_val, response.val) THEN Accept(max_val)
    ELSE Accept(response.val)

\* One pass of get_float's loop: the value returned, or the error message
\* and another pass.
get_float(response, min_val, max_val, default) ==
    IF response.kind = "empty" /\ default # None THEN Accept(default)
    ELSE IF response.kind # "num" THEN Reject
    ELSE IF Le(min_val, response.val) /\ Le(response.val, max_val)
         THEN Accept(response.val)
    ELSE Reject

\* One pass of get_integer's loop: int() refuses text that is no integer.
get_integer(response, min_val, max_val, default) ==
    IF response.kind = "empty" /\ default # None THEN Accept(default)
    ELSE IF response.kind # "num" \/ ~IsInteger(response.val) THEN Reject
    ELSE IF Le(min_val, response.val) /\ Le(response.val, max_val)
         THEN Accept(response.val)
    ELSE Reject

\* One pass of get_yes_no's loop.
get_yes_no(response, default) ==
    IF response.kind = "empty" THEN Accept(default)
    ELSE IF response \in {Text("y"), Text("yes"), Number(One)} THEN Accept(TRUE)
    ELSE IF response \in {Text("n"), Text("no"), Number(Zero)} THEN Accept(FALSE)
    ELSE Reject

\* One pass of get_choice's loop.
get_choice(response, options) ==
    IF response.kind # "num" \/ ~IsInteger(response.val) THEN Reject
    ELSE IF 1 <= response.val.n /\ response.val.n <= Len(options)
         THEN Accept(options[response.val.n])
    ELSE Reject

\* ------------------------------------------------------------------------
\* collect_monthly_income: the pattern features of an income history
\* ------------------------------------------------------------------------

Whole(i) == Num(i, 1)

\* The mean with its division guarded the way the other divisions of the
\* function are, by adding 1 to the divisor.
MeanPlusOne(s) == Div(Sum(s), Whole(Len(s) + 1))

\* np.mean
Mean(s) == Div(Sum(s), Whole(Len(s)))

\* An amount with paise that is no binary fraction: 100.10 rupees.
InexactAmount == Num(1001, 10)

\* One unit in the last place of the double nearest 100.10: 2^-46, about
\* 1.42e-14.
Ulp == Scale10(Num(142, 100), -14)

\* |np.mean(s) - the exact mean of s|: what the additions and the division
\* of double arithmetic lose.  Sums of the model's whole amounts are exact.
\* Three or six copies of 100.10 add up, in whatever order, to a double that
\* divided by their number misses 100.10 by one unit in the last place; one,
\* two, four or five copies give 100.10 back.  (Seven and more copies are
\* not tabulated: the model builds no such series.)
MeanRounding(s) ==
    IF Range(s) = {InexactAmount} /\ Len(s) \in {3, 6} THEN Ulp ELSE Zero

\* np.abs(incomes - mean_income): a month equal to the exact mean differs
\* from the computed mean by the mean's rounding.
Deviations(s) ==
    LET m == Mean(s)
        lost == MeanRounding(s)
    IN  [i \in 1..Len(s) |->
            IF lost # Zero /\ s[i] = m THEN lost ELSE AbsNum(Sub(s[i], m))]

\* np.std: the population standard deviation sqrt(mean(|x - mean|^2)).
Std(s) == Sqrt(Mean([i \in 1..Len(s) |-> Sq(Deviations(s)[i])]))

\* np.diff(incomes) / (incomes[:-1] + 1): entry i compares element i+1 of the
\* list with element i, in the order the list is stored.
MomChanges(incomes) ==
    [i \in 1..(Len(incomes) - 1) |->
        Div(Sub(incomes[i + 1], incomes[i]), Add(incomes[i], One))]

\* std_income / mean_income without the test of the mean.
OverMeanUnguarded(value, mean_income) == Div(value, mean_income)

\* value / mean_income if mean_income > 0 else 0
OverMean(value, mean_income) ==
    IF Gt(mean_income, Zero) THEN Div(value, mean_income) ELSE Zero

\* The dict collect_monthly_income returns for the list it has read.
IncomeFeatures(monthly_incomes) ==
    LET incomes == monthly_incomes
        mean_income == IF Len(incomes) > 0 THEN Mean(incomes) ELSE Zero
        std_income == IF Len(incomes) > 1 THEN Std(incomes) ELSE Zero
        mom_changes == MomChanges(incomes)
        many == Len(incomes) > 1
        max_increase ==
            IF many THEN (IF Len(mom_changes) > 0 THEN MaxOf(mom_changes) ELSE Zero)
            ELSE Zero
        max_decrease ==
            IF many THEN (IF Len(mom_changes) > 0 THEN AbsNum(MinOf(mom_changes)) ELSE Zero)
            ELSE Zero
        avg_change ==
            IF many
            THEN (IF Len(mom_changes) > 0
                  THEN Mean([i \in DOMAIN mom_changes |-> AbsNum(mom_changes[i])])
                  ELSE Zero)
            ELSE Zero
    IN  [ monthly_incomes |-> monthly_incomes,
          income_cv |-> OverMean(std_income, mean_income),
          max_mom_increase |-> max_increase,
          max_mom_decrease |-> max_decrease,
          avg_mom_change |-> avg_change,
          max_deviation_from_mean |->
              IF Gt(mean_income, Zero)
              THEN MaxOf([i \in DOMAIN incomes |->
                            Div(Deviations(incomes)[i], mean_income)])
              ELSE Zero,
          pct_high_deviation |->
              Mean([i \in DOMAIN incomes |->
                      IF Gt(Div(Deviations(incomes)[i], Add(mean_income, One)), One)
                      THEN One ELSE Zero]) ]

\* ------------------------------------------------------------------------
\* collect_pattern_data: its prompts in order, and what each answer sets
\* ------------------------------------------------------------------------

\* -sum(p * log2(p + 1e-10) for p in modes): kept as the list of its terms'
\* arguments, since log2 has no exact value; the empty list is the value 0.
Entropy(modes) == modes

SelectPositive(s) == SelectSeq(s, LAMBDA m : Gt(m, Zero))

\* Prompt number `at` of collect_pattern_data: the reader used, its range and
\* its default, given the dict filled so far.
PatternPrompt(at, data) ==
    CASE at = 1  -> [fn |-> "float", lo |-> Whole(1), hi |-> Whole(500), default |-> Whole(10)]
      [] at = 2  -> [fn |-> "int",   lo |-> Whole(1), hi |-> Whole(500), default |-> Whole(20)]
      [] at = 3  -> [fn |-> "float", lo |-> Whole(1), hi |-> Whole(500),
                     default |-> data["avg_tx_per_month"]]
      [] at = 4  -> [fn |-> "float", lo |-> Whole(1), hi |-> Whole(500),
                     default |-> data["avg_tx_per_month"]]
      [] at = 5  -> [fn |-> "float", lo |-> Zero, hi |-> Whole(100), default |-> Whole(10)]
      [] at = 6  -> [fn |-> "float", lo |-> Zero, hi |-> Whole(100), default |-> Whole(5)]
      [] at = 7  -> [fn |-> "float", lo |-> Zero, hi |-> Whole(100), default |-> Whole(15)]
      [] at = 8  -> [fn |-> "float", lo |-> Zero, hi |-> Whole(100), default |-> Whole(5)]
      [] at = 9  -> [fn |-> "float", lo |-> Zero, hi |-> Whole(100), default |-> Whole(2)]
      [] at = 10 -> [fn |-> "int",   lo |-> Whole(1), hi |-> Whole(50), default |-> Whole(2)]
      [] at = 11 -> [fn |-> "float", lo |-> Zero, hi |-> Whole(100), default |-> Whole(80)]
      [] at = 12 -> [fn |-> "float", lo |-> Zero, hi |-> Whole(100), default |-> Whole(10)]
      [] at = 13 -> [fn |-> "float", lo |-> Zero, hi |-> Whole(100), default |-> Whole(20)]
      [] at = 14 -> [fn |-> "float", lo |-> Zero, hi |-> Whole(100), default |-> Whole(15)]
      [] at = 15 -> [fn |-> "float", lo |-> Zero, hi |-> Whole(100), default |-> Whole(40)]
      [] at = 16 -> [fn |-> "float", lo |-> Zero, hi |-> Whole(100), default |-> Whole(40)]
      [] at = 17 -> [fn |-> "float", lo |-> Zero, hi |-> Whole(100000000), default |-> None]
      [] at = 18 -> [fn |-> "float", lo |-> Zero, hi |-> Whole(100000000), default |-> None]
      [] at = 19 -> [fn |-> "int",   lo |-> Zero, hi |-> Whole(365), default |-> Whole(45)]
      [] at = 20 -> [fn |-> "float", lo |-> Whole(1), hi |-> Whole(365), default |-> Whole(15)]

PatternPrompts == 20

Percent(v) == Div(v, Whole(100))

\* A guarded ratio whose else branch is 0 whatever the ratio.
RatioElseZero(value, denominator, default) ==
    IF Gt(denominator, Zero) THEN Div(value, denominator) ELSE Zero

\* value / denominator if denominator > 0 else default
Ratio(value, denominator, default) ==
    IF Gt(denominator, Zero) THEN Div(value, denominator) ELSE default

\* The statements that follow prompt `at` once it returned v: the dict `data`
\* and the local variables `loc` of collect_pattern_data afterwards.
PatternAssign(at, v, data, loc) ==
    CASE at = 1  -> [data |-> Put(data, "avg_tx_per_month", v), loc |-> loc]
      [] at = 2  ->
            LET avg == data["avg_tx_per_month"]
            IN  [data |-> Put(data, "freq_cv",
                              Ratio(Sub(v, avg), avg, Zero)),
                 loc |-> Put(loc, "max_tx", v)]
      [] at = 3  -> [data |-> data, loc |-> Put(loc, "old_avg", v)]
      [] at = 4  ->
            LET avg == data["avg_tx_per_month"]
                old_avg == loc["old_avg"]
                d1 == Put(data, "velocity_change",
                          Ratio(v, old_avg, One))
            IN  [data |-> Put(d1, "burst_ratio",
                              Ratio(loc["max_tx"], avg, One)),
                 loc |-> Put(loc, "new_avg", v)]
      [] at = 5  -> [data |-> Put(data, "weekend_pct", Percent(v)), loc |-> loc]
      [] at = 6  -> [data |-> Put(data, "night_hours_pct", Percent(v)), loc |-> loc]
      [] at = 7  -> [data |-> Put(data, "round_amount_pct", Percent(v)), loc |-> loc]
      [] at = 8  -> [data |-> Put(data, "near_50k_pct", Percent(v)), loc |-> loc]
      [] at = 9  -> [data |-> Put(data, "near_200k_pct", Percent(v)), loc |-> loc]
      [] at = 10 -> [data |-> Put(data, "num_unique_sources", v), loc |-> loc]
      [] at = 11 -> [data |-> Put(data, "source_concentration", Percent(v)), loc |-> loc]
      [] at = 12 -> [data |-> Put(data, "new_source_rate", Percent(v)), loc |-> loc]
      [] at = 13 -> [data |-> Put(data, "unverified_rate", Percent(v)), loc |-> loc]
      [] at = 14 -> [data |-> Put(data, "cash_deposit_rate", Percent(v)), loc |-> loc]
      [] at = 15 -> [data |-> data, loc |-> Put(loc, "upi_pct", v)]
      [] at = 16 ->
            LET upi_pct == loc["upi_pct"]
                cash == Mul(data["cash_deposit_rate"], Whole(100))
                modes == << upi_pct, v, cash,
                            Sub(Sub(Sub(Whole(100), upi_pct), v), cash) >>
                shares == [i \in DOMAIN SelectPositive(modes) |->
                              Percent(SelectPositive(modes)[i])]
            IN  [data |-> Put(data, "mode_entropy", Entropy(shares)),
                 loc |-> Put(loc, "neft_pct", v)]
      [] at = 17 -> [data |-> data, loc |-> Put(loc, "first_half_total", v)]
      [] at = 18 ->
            LET first_half_total == loc["first_half_total"]
            IN  [data |-> Put(data, "amount_change_ratio",
                              Ratio(v, first_half_total, One)),
                 loc |-> Put(loc, "second_half_total", v)]
      [] at = 19 -> [data |-> Put(data, "max_gap_days", v), loc |-> loc]
      [] at = 20 ->
            LET d1 == Put(data, "avg_gap_days", v)
            IN  [data |-> Put(d1, "gap_irregularity",
                              Ratio(AbsNum(Sub(data["max_gap_days"], v)), v, Zero)),
                 loc |-> loc]

\* ------------------------------------------------------------------------
\* AnomalyDetector
\* ------------------------------------------------------------------------

\* AnomalyDetector.__init__
NewDetector ==
    [ model |-> "None", scaler |-> "None", label_encoders |-> "None",
      feature_names |-> "None", is_loaded |-> FALSE ]

\* The four loads of AnomalyDetector.load, in order.
LoadSteps == << "model", "scaler", "label_encoders", "feature_names" >>

\* load with "self.is_loaded = True" as the first statement of the try.
LoadIntoFlagFirst(det, kind, failing) ==
    LET first == IF failing = "none" THEN Len(LoadSteps) + 1
                 ELSE CHOOSE i \in DOMAIN LoadSteps : LoadSteps[i] = failing
        d0 == [det EXCEPT !.is_loaded = TRUE]
        d1 == IF first > 1 THEN [d0 EXCEPT !.model = kind] ELSE d0
        d2 == IF first > 2 THEN [d1 EXCEPT !.scaler = "scaler"] ELSE d1
        d3 == IF first > 3 THEN [d2 EXCEPT !.label_encoders = "encoders"] ELSE d2
        d4 == IF first > 4 THEN [d3 EXCEPT !.feature_names = "names"] ELSE d3
    IN  [detector |-> d4, returns |-> failing = "none"]

\* AnomalyDetector.load when the load named `failing` raises ("none": no load
\* raises) and the model file holds a model of kind `kind`: the assignments
\* before the failing load are made, the except clause returns False.
LoadInto(det, kind, failing) ==
    LET first == IF failing = "none" THEN Len(LoadSteps) + 1
                 ELSE CHOOSE i \in DOMAIN LoadSteps : LoadSteps[i] = failing
        d1 == IF first > 1 THEN [det EXCEPT !.model = kind] ELSE det
        d2 == IF first > 2 THEN [d1 EXCEPT !.scaler = "scaler"] ELSE d1
        d3 == IF first > 3 THEN [d2 EXCEPT !.label_encoders = "encoders"] ELSE d2
        d4 == IF first > 4 THEN [d3 EXCEPT !.feature_names = "names"] ELSE d3
    IN  IF failing = "none"
        THEN [detector |-> [d4 EXCEPT !.is_loaded = TRUE], returns |-> TRUE]
        ELSE [detector |-> d4, returns |-> FALSE]

\* The classes the two LabelEncoders were fitted on, in the encoders' (sorted)
\* order: the sectors and income tiers of the training data.
SECTOR_CLASSES ==
    << "agriculture", "construction", "domestic_work", "education",
       "gig_economy", "healthcare", "manufacturing", "office_work", "retail",
       "self_employed", "skilled_trade", "street_vendor", "transport" >>

TIER_CLASSES == << "high", "low", "medium" >>

\* self.label_encoders once loaded.
LabelEncoders == [sector |-> SECTOR_CLASSES, income_tier |-> TIER_CLASSES]

\* self.feature_names once loaded: the training's feature_cols.
FEATURE_NAMES ==
    << "unverified_rate", "weekend_pct", "night_hours_pct",
       "source_concentration", "num_unique_sources", "income_cv",
       "max_deviation_from_mean", "amount_range_ratio", "round_amount_pct",
       "near_50k_pct", "very_high_pct", "avg_tx_per_month", "velocity_change",
       "burst_ratio", "freq_cv", "max_mom_increase", "avg_mom_change",
       "pct_high_deviation", "cash_deposit_rate", "sector_encoded",
       "income_tier_encoded", "is_formal" >>

categorical_cols == << "sector", "income_tier" >>

\* {**a, **b}
Merge(a, b) ==
    [k \in (DOMAIN a) \cup (DOMAIN b) |-> IF k \in DOMAIN b THEN b[k] ELSE a[k]]

\* The try / except with -1 in the except branch.
EncodedOrMinusOne(classes, value) ==
    IF value \in Range(classes)
    THEN Whole((CHOOSE i \in DOMAIN classes : classes[i] = value) - 1)
    ELSE Whole(-1)

\* try: encoder.transform([value])[0]  except: 0.  transform gives the
\* position of a class among the fitted ones, from 0, and raises for a value
\* that is none of them.
Encoded(classes, value) ==
    IF value \in Range(classes)
    THEN Whole((CHOOSE i \in DOMAIN classes : classes[i] = value) - 1)
    ELSE Zero

\* The loop over categorical_cols, from column number i on.
RECURSIVE EncodeColumns(_, _)
EncodeColumns(i, data) ==
    IF i > Len(categorical_cols) THEN data
    ELSE LET col == categorical_cols[i]
         IN  EncodeColumns(i + 1,
                 IF col \in DOMAIN LabelEncoders /\ col \in DOMAIN data
                 THEN Put(data, col \o "_encoded", Encoded(LabelEncoders[col], data[col]))
                 ELSE data)

\* AnomalyDetector.preprocess of a loaded detector, up to the scaler: the
\* feature vector, and the three dicts as the call leaves them.
preprocess(worker_data, pattern_data, income_data) ==
    LET data == EncodeColumns(1, Merge(Merge(worker_data, pattern_data), income_data))
        feature_names == FEATURE_NAMES
    IN  [ feature_vector |->
              [i \in 1..Len(feature_names) |->
                  IF feature_names[i] \in DOMAIN data THEN data[feature_names[i]]
                  ELSE Zero],
          worker_data |-> worker_data,
          pattern_data |-> pattern_data,
          income_data |-> income_data ]

\* round(x, 2) for x >= 0: to the nearest hundredth, ties to the even one.
Round2(x) ==
    LET t == Mul(x, Whole(100))
        q == t.n \div t.d
        rest == t.n - q * t.d
        up == IF 2 * rest > t.d THEN 1
              ELSE IF 2 * rest < t.d THEN 0
              ELSE q % 2
    IN  Num(q + up, 100)

\* max(a, b) taken for min(a, b).
SmallerNum(a, b) == IF Lt(a, b) THEN a ELSE b

MaxNum(a, b) == IF Lt(a, b) THEN b ELSE a
MinNum(a, b) == IF Lt(b, a) THEN b ELSE a

\* detect without "prediction = 1 if prediction == -1 else 0": the model's
\* own answer is compared with 1.
DetectResultUnmapped(model, out) ==
    LET has_proba == model = "classifier"
        prediction == out.predict
        anomaly_score == IF has_proba THEN Mul(out.proba, Whole(100))
                         ELSE IF prediction = 1 THEN Whole(50) ELSE Whole(10)
    IN  [ is_anomaly |-> prediction = 1,
          anomaly_score |-> Round2(anomaly_score),
          confidence |-> Round2(MaxNum(anomaly_score, Sub(Whole(100), anomaly_score))) ]

\* The dict AnomalyDetector.detect returns when the model answers `out`
\* (out.predict: model.predict(X)[0]; out.proba: model.predict_proba(X)[0][1]).
DetectResult(model, out) ==
    LET has_proba == model = "classifier"
        prediction == IF has_proba THEN out.predict
                      ELSE IF out.predict = -1 THEN 1 ELSE 0
        anomaly_score == IF has_proba THEN Mul(out.proba, Whole(100))
                         ELSE IF prediction = 1 THEN Whole(50) ELSE Whole(10)
    IN  [ is_anomaly |-> prediction = 1,
          anomaly_score |-> Round2(anomaly_score),
          confidence |-> Round2(MaxNum(anomaly_score, Sub(Whole(100), anomaly_score))) ]

\* main's ml_result when the classifier is not available.
NoMlResult == [is_anomaly |-> FALSE, anomaly_score |-> Zero, confidence |-> Zero]

\* ------------------------------------------------------------------------
\* rule_based_detection
\* ------------------------------------------------------------------------

\* The hash seed of the running interpreter, drawn when the process starts.
VARIABLE hash_seed

HashSeeds == {"ascending", "descending"}

Reverse(s) == [i \in DOMAIN s |-> s[Len(s) + 1 - i]]

\* The order in which the labels come out of a set in a process with hash
\* seed `seed`: every order is some seed's; the model keeps two.
SetOrder(seed) ==
    IF seed = "ascending" THEN ANOMALY_DESCRIPTIONS ELSE Reverse(ANOMALY_DESCRIPTIONS)

\* The return statement without the set: return anomalies.
ListOfSetKeepAll(anomalies) == anomalies

\* list(set(anomalies)): the labels without repetition, in the order in
\* which the set iterates.  A set of str iterates in the order of the
\* strings' hashes, which the interpreter salts anew for every process
\* (hash randomization), so the order belongs to the process.
ListOfSetIn(order, anomalies) ==
    LET labels == Range(anomalies)
    IN  SelectSeq(order, LAMBDA c : c \in labels)

ListOfSet(anomalies) == ListOfSetIn(SetOrder(hash_seed), anomalies)

AppendIf(cond, list, label) == IF cond THEN Append(list, label) ELSE list

\* Every .get with the default 0.
NeutralZero(key) == Zero

\* The second argument of each .get(key, default) of rule_based_detection.
Neutral(key) ==
    IF key \in {"velocity_change", "burst_ratio", "amount_change_ratio"} THEN One
    ELSE Zero

\* data.get(key, default)
Field(data, key) == Get(data, key, Neutral(key))

\* The comparison as value >= threshold.
ExceedsOrEquals(value, threshold) == Ge(value, threshold)

\* The comparison each rule makes with its threshold: value > threshold.
Exceeds(value, threshold) == Gt(value, threshold)

\* The literal each comparison of rule_based_detection is made with: one per
\* field, a second one for the lower side of velocity_change and for the
\* weekend share of the weekend_heavy rule.
THRESHOLD ==
    [income_cv |-> Num(1, 2),
     max_mom_increase |-> Whole(3),
     max_deviation_from_mean |-> Whole(2),
     near_50k_pct |-> Num(3, 10),
     near_200k_pct |-> Num(2, 10),
     round_amount_pct |-> Num(6, 10),
     night_hours_pct |-> Num(3, 10),
     weekend_pct |-> Num(5, 10),
     velocity_change |-> Whole(3),
     velocity_change_low |-> Num(3, 10),
     burst_ratio |-> Whole(5),
     new_source_rate |-> Num(5, 10),
     unverified_rate |-> Num(5, 10),
     max_gap_days |-> Whole(90),
     amount_change_ratio |-> Whole(2),
     weekend_heavy |-> Num(4, 10)]

\* The twelve ifs of rule_based_detection, in the order of the code: what
\* if number i tests and the label it appends.
Rule(i, income_data, pattern_data) ==
    CASE i = 1 ->  \* income volatility
            [fires |-> Exceeds(Field(income_data, "income_cv"), THRESHOLD.income_cv),
             label |-> "high_volatility"]
      [] i = 2 ->  \* sudden spikes
            [fires |-> Exceeds(Field(income_data, "max_mom_increase"), THRESHOLD.max_mom_increase),
             label |-> "sudden_spike"]
      [] i = 3 ->  \* pattern breaks
            [fires |-> Exceeds(Field(income_data, "max_deviation_from_mean"), THRESHOLD.max_deviation_from_mean),
             label |-> "pattern_break"]
      [] i = 4 ->  \* structuring
            [fires |-> \/ Exceeds(Field(pattern_data, "near_50k_pct"), THRESHOLD.near_50k_pct)
                       \/ Exceeds(Field(pattern_data, "near_200k_pct"), THRESHOLD.near_200k_pct),
             label |-> "structuring"]
      [] i = 5 ->  \* round amounts
            [fires |-> Exceeds(Field(pattern_data, "round_amount_pct"), THRESHOLD.round_amount_pct),
             label |-> "round_amounts"]
      [] i = 6 ->  \* unusual timing
            [fires |-> \/ Exceeds(Field(pattern_data, "night_hours_pct"), THRESHOLD.night_hours_pct)
                       \/ Exceeds(Field(pattern_data, "weekend_pct"), THRESHOLD.weekend_pct),
             label |-> "irregular_timing"]
      [] i = 7 ->  \* velocity changes
            [fires |-> \/ Exceeds(Field(pattern_data, "velocity_change"), THRESHOLD.velocity_change)
                       \/ Exceeds(THRESHOLD.velocity_change_low, Field(pattern_data, "velocity_change")),
             label |-> "velocity_change"]
      [] i = 8 ->  \* transaction bursts
            [fires |-> Exceeds(Field(pattern_data, "burst_ratio"), THRESHOLD.burst_ratio),
             label |-> "dormant_burst"]
      [] i = 9 ->  \* new sources
            [fires |-> Exceeds(Field(pattern_data, "new_source_rate"), THRESHOLD.new_source_rate),
             label |-> "new_sources"]
      [] i = 10 -> \* low verification
            [fires |-> Exceeds(Field(pattern_data, "unverified_rate"), THRESHOLD.unverified_rate),
             label |-> "ghost_income"]
      [] i = 11 -> \* dormancy
            [fires |-> /\ Exceeds(Field(pattern_data, "max_gap_days"), THRESHOLD.max_gap_days)
                       /\ Exceeds(Field(pattern_data, "amount_change_ratio"), THRESHOLD.amount_change_ratio),
             label |-> "dormant_burst"]
      [] i = 12 -> \* weekend transactions
            [fires |-> Exceeds(Field(pattern_data, "weekend_pct"), THRESHOLD.weekend_heavy),
             label |-> "weekend_heavy"]

RULE_ORDER == << 1, 2, 3, 4, 5, 6, 7, 8, 9, 10, 11, 12 >>

\* The ifs chained as if / elif: the run ends at the first rule that fires.
RECURSIVE RunRulesElif(_, _, _, _)
RunRulesElif(order, income_data, pattern_data, anomalies) ==
    IF order = << >> THEN anomalies
    ELSE LET rule == Rule(Head(order), income_data, pattern_data)
         IN  IF rule.fires THEN Append(anomalies, rule.label)
             ELSE RunRulesElif(Tail(order), income_data, pattern_data, anomalies)

\* The ifs run one after the other in `order`, each appending its label to
\* `anomalies` when it fires.
RECURSIVE RunRules(_, _, _, _)
RunRules(order, income_data, pattern_data, anomalies) ==
    IF order = << >> THEN anomalies
    ELSE LET rule == Rule(Head(order), income_data, pattern_data)
         IN  RunRules(Tail(order), income_data, pattern_data,
                      AppendIf(rule.fires, anomalies, rule.label))

rule_based_detection(income_data, pattern_data) ==
    ListOfSet(RunRules(RULE_ORDER, income_data, pattern_data, << >>))

\* ------------------------------------------------------------------------
\* display_results: the risk assessment
\* ------------------------------------------------------------------------

\* The risk score without the final min(risk_score, 100).
RiskScoreUnclamped(ml_result, rule_anomalies) ==
    IF Len(rule_anomalies) > 0
    THEN Add(ml_result.anomaly_score, Whole(Len(rule_anomalies) * 10))
    ELSE ml_result.anomaly_score

\* The risk score with "risk_score = len(rule_anomalies) * 10" for "+=".
RiskScoreOverwrite(ml_result, rule_anomalies) ==
    MinNum(IF Len(rule_anomalies) > 0 THEN Whole(Len(rule_anomalies) * 10)
           ELSE ml_result.anomaly_score,
           Whole(100))

RiskScore(ml_result, rule_anomalies) ==
    LET base == ml_result.anomaly_score
        more == IF Len(rule_anomalies) > 0
                THEN Add(base, Whole(Len(rule_anomalies) * 10))
                ELSE base
    IN  MinNum(more, Whole(100))

\* The tiers with "risk_score > 40" for the MEDIUM cutoff.
RiskLevelStrictMedium(risk_score) ==
    IF Ge(risk_score, Whole(70)) THEN "HIGH RISK"
    ELSE IF Gt(risk_score, Whole(40)) THEN "MEDIUM RISK"
    ELSE "LOW RISK"

\* The tiers with "risk_score > 70" for the HIGH cutoff.
RiskLevelStrictHigh(risk_score) ==
    IF Gt(risk_score, Whole(70)) THEN "HIGH RISK"
    ELSE IF Ge(risk_score, Whole(40)) THEN "MEDIUM RISK"
    ELSE "LOW RISK"

RiskLevel(risk_score) ==
    IF Ge(risk_score, Whole(70)) THEN "HIGH RISK"
    ELSE IF Ge(risk_score, Whole(40)) THEN "MEDIUM RISK"
    ELSE "LOW RISK"

Recommendation(risk_score) ==
    IF Ge(risk_score, Whole(70))
    THEN "IMMEDIATE REVIEW REQUIRED - Unusual patterns detected"
    ELSE IF Ge(risk_score, Whole(40))
    THEN "MONITORING RECOMMENDED - Some unusual patterns"
    ELSE "NORMAL - Patterns consistent with history"

\* The loop printing a description per label, with every label printed
\* whether or not the table has it.
DescriptionsUnguarded(rule_anomalies) == rule_anomalies

\* for anomaly in rule_anomalies: if anomaly in ANOMALY_DESCRIPTIONS: print
\* its description.  The line printed is named by its label.
Descriptions(rule_anomalies) ==
    SelectSeq(rule_anomalies, LAMBDA a : a \in Range(ANOMALY_DESCRIPTIONS))

\* The labels the PATTERN EXPLANATION section tests, in the order of its ifs.
EXPLAINED ==
    << "sudden_spike", "high_volatility", "structuring", "velocity_change",
       "new_sources", "ghost_income", "irregular_timing" >>

\* if ml_result['is_anomaly'] or rule_anomalies: one line per label of
\* EXPLAINED that is in rule_anomalies.
Explanations(ml_result, rule_anomalies) ==
    IF ml_result.is_anomaly \/ Len(rule_anomalies) > 0
    THEN SelectSeq(EXPLAINED, LAMBDA a : a \in Range(rule_anomalies))
    ELSE << >>

display_results(ml_result, rule_anomalies) ==
    LET risk_score == RiskScore(ml_result, rule_anomalies)
    IN  [ descriptions |-> Descriptions(rule_anomalies),
          risk_score |-> risk_score,
          risk_level |-> RiskLevel(risk_score),
          recommendation |-> Recommendation(risk_score),
          explanations |-> Explanations(ml_result, rule_anomalies) ]

NothingShown ==
    [ descriptions |-> << >>, risk_score |-> None, risk_level |-> "",
      recommendation |-> "", explanations |-> << >> ]

\* ------------------------------------------------------------------------
\* The answers the model lets the user type
\* ------------------------------------------------------------------------

\* Answers per case that differ from the usual one of their prompt.
MaxOdd == 4

\* The longest history asked for (the program accepts 6 to 24 months).
MaxMonths == 6

\* An amount below any positive amount of rupees that float() still reads as
\* positive: 1e-320.
TinyAmount == Scale10(One, -320)

Numbers(set) == {Number(Whole(i)) : i \in set}

\* collect_worker_data, prompt `at`: the usual answer and the other ones.
WorkerUsual(at) ==
    CASE at = 1 -> Number(Whole(1))
      [] at = 2 -> Empty
      [] at = 3 -> Number(Whole(1))
      [] at = 4 -> Empty

WorkerOthers(at) ==
    CASE at = 1 -> {Number(Whole(12))}
      [] at = 2 -> {Text("maybe")}
      [] OTHER  -> {}

\* collect_monthly_income: prompt 1 asks for the number of months, prompt
\* i + 1 for the income of month i (month 1 is the most recent).
IncomeUsual(at) == IF at = 1 THEN Number(Whole(6)) ELSE Number(Whole(100))

IncomeOthers(at) ==
    IF at = 1 THEN Numbers(5..MaxMonths) \ {Number(Whole(6))}
    ELSE IF at = 2 THEN Numbers({600, -5})
    ELSE IF at <= 4 THEN Numbers({600})
    ELSE {}

\* collect_pattern_data: ENTER where the prompt has a default.
PatternUsual(at) == IF at \in {17, 18} THEN Number(Whole(600)) ELSE Empty

PatternOthers(at) ==
    CASE at = 2  -> Numbers({60})
      [] at = 4  -> Numbers({40})
      [] at = 5  -> Numbers({60, 150})
      [] at = 8  -> Numbers({35})
      [] at = 13 -> Numbers({60})
      [] at = 15 -> Numbers({100})
      [] at = 17 -> {Number(TinyAmount), Number(Zero)}
      [] OTHER   -> {}

AgainUsual == Empty
AgainOthers == {Text("y"), Text("maybe")}

\* What the model file can hold, and which load can fail.
ModelKinds == {"classifier", "isolation_forest"}
LoadFailures == {"none", "model"}

\* predict_proba(X)[0][1] of a classifier; its predict is the likelier class.
Probas == {Num(k, 10000) : k \in {0, 3999, 6000, 8500}}

ModelOutputs(model) ==
    IF model = "classifier"
    THEN {[predict |-> IF Gt(p, Num(1, 2)) THEN 1 ELSE 0, proba |-> p] : p \in Probas}
    ELSE {[predict |-> k, proba |-> Zero] : k \in {-1, 1}}

\* ------------------------------------------------------------------------
\* main
\* ------------------------------------------------------------------------

VARIABLES
    pc,             \* where main is: load, worker, income, pattern, detect,
                    \* rules, display, again, done, crashed
    at,             \* the prompt the running collector waits at
    rejected,       \* the answer the pending prompt last refused
    odd,            \* answers of this case that were not the usual one
    worker_data, income_data, pattern_data,
    loc,            \* local variables of the running collector
    detector,       \* the AnomalyDetector
    ml_available,
    ml_result,
    rule_anomalies,
    shown,          \* the risk assessment display_results printed
    typed           \* history: what the current case's collectors were given

vars == << pc, at, rejected, odd, worker_data, income_data, pattern_data, loc,
           detector, ml_available, ml_result, rule_anomalies, shown, hash_seed,
           typed >>

NoResult == [is_anomaly |-> FALSE, anomaly_score |-> None, confidence |-> None]

Init ==
    /\ pc = "load"
    /\ at = 0
    /\ rejected = NoResponse
    /\ odd = 0
    /\ worker_data = EmptyDict
    /\ income_data = EmptyDict
    /\ pattern_data = EmptyDict
    /\ loc = EmptyDict
    /\ detector = NewDetector
    /\ ml_available = FALSE
    /\ ml_result = NoResult
    /\ rule_anomalies = << >>
    /\ shown = NothingShown
    /\ hash_seed \in HashSeeds
    /\ typed = EmptyDict

\* The answers open at a prompt: the usual one, and the others while the
\* case has answers left that are not the usual one.
Answers(usual, others) == {usual} \cup (IF odd < MaxOdd THEN others ELSE {})

Counted(usual, response) == IF response = usual THEN odd ELSE odd + 1

\* detector = AnomalyDetector(); ml_available = detector.load()
Load ==
    /\ pc = "load"
    /\ \E kind \in ModelKinds, failing \in LoadFailures :
          LET res == LoadInto(detector, kind, failing)
          IN  /\ detector' = res.detector
              /\ ml_available' = res.returns
    /\ pc' = "worker"
    /\ at' = 1
    /\ UNCHANGED << hash_seed, typed, rejected, odd, worker_data, income_data, pattern_data, loc,
                    ml_result, rule_anomalies, shown >>

\* collect_worker_data, one prompt at a time.
WorkerAssign(a, v, data) ==
    CASE a = 1 -> Put(data, "sector", v)
      [] a = 2 -> Put(data, "is_formal", IF v THEN 1 ELSE 0)
      [] a = 3 -> Put(data, "income_tier", v)
      [] a = 4 -> Put(data, "account_age_months", v)

WorkerRead(a, response) ==
    CASE a = 1 -> get_choice(response, JOB_SECTORS)
      [] a = 2 -> get_yes_no(response, FALSE)
      [] a = 3 -> get_choice(response, INCOME_TIERS)
      [] a = 4 -> get_integer(response, Whole(1), Whole(600), Whole(24))

CollectWorkerData ==
    /\ pc = "worker"
    /\ \E response \in Answers(WorkerUsual(at), WorkerOthers(at)) :
          LET got == WorkerRead(at, response)
          IN  /\ odd' = Counted(WorkerUsual(at), response)
              /\ IF got.ok
                 THEN /\ worker_data' = WorkerAssign(at, got.value, worker_data)
                      /\ rejected' = NoResponse
                      /\ IF at = 4
                         THEN pc' = "income" /\ at' = 1
                         ELSE pc' = pc /\ at' = at + 1
                 ELSE /\ rejected' = response
                      /\ UNCHANGED << pc, at, worker_data >>
    /\ UNCHANGED << hash_seed, typed, income_data, pattern_data, loc, detector, ml_available,
                    ml_result, rule_anomalies, shown >>

\* collect_monthly_income, one prompt at a time; the features are computed
\* when the last month has been read.
CollectMonthlyIncome ==
    /\ pc = "income"
    /\ \E response \in Answers(IncomeUsual(at), IncomeOthers(at)) :
          LET got == IF at = 1
                     THEN get_integer(response, Whole(6), Whole(24), Whole(12))
                     ELSE get_float(response, Zero, Whole(100000000), None)
              list == IF at = 1 THEN << >>
                      ELSE Append(loc["monthly_incomes"], got.value)
              last == at > 1 /\ Len(list) = loc["num_months"].n
          IN  /\ odd' = Counted(IncomeUsual(at), response)
              /\ IF ~got.ok
                 THEN /\ rejected' = response
                      /\ UNCHANGED << pc, at, loc, income_data >>
                 ELSE /\ rejected' = NoResponse
                      /\ IF at = 1
                         THEN /\ loc' = [num_months |-> got.value,
                                         monthly_incomes |-> << >>]
                              /\ UNCHANGED income_data
                              /\ pc' = pc /\ at' = 2
                         ELSE IF last
                         THEN /\ income_data' = IncomeFeatures(list)
                              /\ loc' = EmptyDict
                              /\ pc' = "pattern" /\ at' = 1
                         ELSE /\ loc' = [loc EXCEPT !.monthly_incomes = list]
                              /\ UNCHANGED income_data
                              /\ pc' = pc /\ at' = at + 1
    /\ UNCHANGED << hash_seed, typed, worker_data, pattern_data, detector, ml_available,
                    ml_result, rule_anomalies, shown >>

\* collect_pattern_data, one prompt at a time.
CollectPatternData ==
    /\ pc = "pattern"
    /\ \E response \in Answers(PatternUsual(at), PatternOthers(at)) :
          LET prompt == PatternPrompt(at, pattern_data)
              got == IF prompt.fn = "int"
                     THEN get_integer(response, prompt.lo, prompt.hi, prompt.default)
                     ELSE get_float(response, prompt.lo, prompt.hi, prompt.default)
              new == PatternAssign(at, got.value, pattern_data, loc)
          IN  /\ odd' = Counted(PatternUsual(at), response)
              /\ IF ~got.ok
                 THEN /\ rejected' = response
                      /\ UNCHANGED << pc, at, loc, pattern_data >>
                 ELSE /\ rejected' = NoResponse
                      /\ pattern_data' = new.data
                      /\ IF at = PatternPrompts
                         THEN loc' = EmptyDict /\ pc' = "detect" /\ at' = 0
                         ELSE loc' = new.loc /\ pc' = pc /\ at' = at + 1
    /\ UNCHANGED << hash_seed, typed, worker_data, income_data, detector, ml_available,
                    ml_result, rule_anomalies, shown >>

\* if ml_available: ml_result = detector.detect(...).  The scaler, the
\* encoders and the model are external objects: detect returns the model's
\* answer, or one of them raises and nothing in main catches it.
Detect ==
    /\ pc = "detect"
    /\ ml_available
    /\ \/ \E out \in ModelOutputs(detector.model) :
             /\ ml_result' = DetectResult(detector.model, out)
             /\ pc' = "rules"
       \/ /\ pc' = "crashed"
          /\ UNCHANGED ml_result
    /\ UNCHANGED << hash_seed, typed, at, rejected, odd, worker_data, income_data, pattern_data,
                    loc, detector, ml_available, rule_anomalies, shown >>

\* else: ml_result = {'is_anomaly': False, 'anomaly_score': 0, 'confidence': 0}
RulesOnly ==
    /\ pc = "detect"
    /\ ~ml_available
    /\ ml_result' = NoMlResult
    /\ pc' = "rules"
    /\ UNCHANGED << hash_seed, typed, at, rejected, odd, worker_data, income_data, pattern_data,
                    loc, detector, ml_available, rule_anomalies, shown >>

\* rule_anomalies = rule_based_detection(income_data, pattern_data)
RuleBasedDetection ==
    /\ pc = "rules"
    /\ rule_anomalies' = rule_based_detection(income_data, pattern_data)
    /\ pc' = "display"
    /\ UNCHANGED << hash_seed, typed, at, rejected, odd, worker_data, income_data, pattern_data,
                    loc, detector, ml_available, ml_result, shown >>

\* display_results(worker_data, income_data, pattern_data, ml_result, rule_anomalies)
DisplayResults ==
    /\ pc = "display"
    /\ shown' = display_results(ml_result, rule_anomalies)
    /\ pc' = "again"
    /\ UNCHANGED << hash_seed, typed, at, rejected, odd, worker_data, income_data, pattern_data,
                    loc, detector, ml_available, ml_result, rule_anomalies >>

\* The loop body with "detector = AnomalyDetector(); detector.load()" moved
\* into it: every case starts by loading.
NextCaseReloads == "load"

\* Where "while True" starts the next case: at collect_worker_data.
NextCase == "worker"

\* if not get_yes_no("Analyze another case?"): break.  The next pass of the
\* loop assigns every variable of the case anew before reading it, so the
\* model forgets the finished case here.
AnalyzeAnother ==
    /\ pc = "again"
    /\ \E response \in Answers(AgainUsual, AgainOthers) :
          LET got == get_yes_no(response, FALSE)
          IN  IF ~got.ok
              THEN /\ rejected' = response
                   /\ odd' = Counted(AgainUsual, response)
                   /\ UNCHANGED << pc, at, worker_data, income_data, pattern_data,
                                   ml_result, rule_anomalies, shown >>
              ELSE IF got.value
              THEN /\ pc' = NextCase /\ at' = 1
                   /\ rejected' = NoResponse
                   /\ odd' = 0
                   /\ worker_data' = EmptyDict
                   /\ income_data' = EmptyDict
                   /\ pattern_data' = EmptyDict
                   /\ ml_result' = NoResult
                   /\ rule_anomalies' = << >>
                   /\ shown' = NothingShown
              ELSE /\ pc' = "done"
                   /\ rejected' = NoResponse
                   /\ UNCHANGED << at, odd, worker_data, income_data, pattern_data,
                                   ml_result, rule_anomalies, shown >>
    /\ UNCHANGED << hash_seed, typed, loc, detector, ml_available >>

\* ------------------------------------------------------------------------
\* rule_based_detection and display_results called on their own, with
\* records that need not come from the collectors: any field may be missing
\* and a value may lie outside the range the prompts enforce.
\* ------------------------------------------------------------------------

\* Fields present in the two records together.
MaxFields == 3

IncomeKeys == {"income_cv", "max_mom_increase", "max_deviation_from_mean"}

PatternKeys ==
    { "near_50k_pct", "near_200k_pct", "round_amount_pct", "night_hours_pct",
      "weekend_pct", "velocity_change", "burst_ratio", "new_source_rate",
      "unverified_rate", "max_gap_days", "amount_change_ratio" }

\* The values a field takes: at its threshold, beyond it, and for a ratio
\* beyond 1.
UnitValues(key) ==
    CASE key = "income_cv" -> {Num(1, 2), Num(3, 5)}
      [] key = "max_mom_increase" -> {Whole(3), Whole(4)}
      [] key = "max_deviation_from_mean" -> {Whole(2), Whole(3)}
      [] key = "near_50k_pct" -> {Num(3, 10), Num(35, 100)}
      [] key = "near_200k_pct" -> {Num(2, 10), Num(1, 4)}
      [] key = "round_amount_pct" -> {Num(6, 10), Num(7, 10)}
      [] key = "night_hours_pct" -> {Num(3, 10), Num(4, 10)}
      [] key = "weekend_pct" -> {Num(4, 10), Num(5, 10), Num(6, 10)}
      [] key = "velocity_change" -> {Num(2, 10), Num(3, 10), Whole(3), Whole(4)}
      [] key = "burst_ratio" -> {Whole(5), Whole(6)}
      [] key = "new_source_rate" -> {Num(5, 10), Num(6, 10)}
      [] key = "unverified_rate" -> {Num(5, 10), Num(6, 10), Num(-1, 10)}
      [] key = "max_gap_days" -> {Whole(90), Whole(120)}
      [] key = "amount_change_ratio" -> {Whole(2), Whole(3)}

\* The classifier results display_results is called with.
UnitMlResults ==
    {NoMlResult, DetectResult("classifier", [predict |-> 1, proba |-> Num(6, 10)])}

InitUnit ==
    /\ pc = "unit"
    /\ at = 0
    /\ rejected = NoResponse
    /\ odd = 0
    /\ worker_data = EmptyDict
    /\ income_data = EmptyDict
    /\ pattern_data = EmptyDict
    /\ loc = EmptyDict
    /\ detector = NewDetector
    /\ ml_available = FALSE
    /\ ml_result = NoResult
    /\ rule_anomalies = << >>
    /\ shown = NothingShown
    /\ hash_seed \in HashSeeds
    /\ typed = EmptyDict

\* The caller puts one more field into a record.
UnitSetField ==
    /\ pc = "unit"
    /\ Cardinality(DOMAIN income_data) + Cardinality(DOMAIN pattern_data) < MaxFields
    /\ \/ \E key \in IncomeKeys \ DOMAIN income_data : \E v \in UnitValues(key) :
             /\ income_data' = Put(income_data, key, v)
             /\ UNCHANGED pattern_data
       \/ \E key \in PatternKeys \ DOMAIN pattern_data : \E v \in UnitValues(key) :
             /\ pattern_data' = Put(pattern_data, key, v)
             /\ UNCHANGED income_data
    /\ UNCHANGED << hash_seed, typed, pc, at, rejected, odd, worker_data, loc, detector,
                    ml_available, ml_result, rule_anomalies, shown >>

\* The caller passes the records on as main does without a classifier.
UnitCall ==
    /\ pc = "unit"
    /\ ml_result' = NoMlResult
    /\ pc' = "rules"
    /\ UNCHANGED << hash_seed, typed, at, rejected, odd, worker_data, income_data, pattern_data,
                    loc, detector, ml_available, rule_anomalies, shown >>

\* Lists of labels display_results is called with directly; "smurfing" is
\* a label ANOMALY_DESCRIPTIONS does not have.
UnitLabelLists ==
    { << "smurfing" >>, << "structuring", "smurfing" >>,
      << "smurfing", "layering", "low_verification" >>,
      << "sudden_spike", "smurfing", "weekend_heavy" >> }

\* The caller hands display_results a list of its own.
UnitDisplay ==
    /\ pc = "unit"
    /\ DOMAIN income_data = {} /\ DOMAIN pattern_data = {}
    /\ \E result \in UnitMlResults, labels \in UnitLabelLists :
          /\ ml_result' = result
          /\ rule_anomalies' = labels
          /\ shown' = display_results(result, labels)
    /\ pc' = "direct"
    /\ UNCHANGED << hash_seed, typed, at, rejected, odd, worker_data, income_data,
                    pattern_data, loc, detector, ml_available >>

\* The worker records preprocess is called with: none of the fields, a
\* sector and a tier the encoders know, and a sector they do not know with
\* no tier.
UnitWorkers ==
    { EmptyDict,
      [sector |-> "construction", income_tier |-> "low"],
      [sector |-> "gig_worker", is_formal |-> 1] }

\* The caller has preprocess build the feature vector of the records.
UnitPreprocess ==
    /\ pc = "unit"
    /\ \E worker \in UnitWorkers :
          LET call == preprocess(worker, pattern_data, income_data)
          IN  /\ loc' = [feature_vector |-> call.feature_vector]
              /\ worker_data' = call.worker_data
              /\ pattern_data' = call.pattern_data
              /\ income_data' = call.income_data
    /\ pc' = "vector"
    /\ UNCHANGED << hash_seed, typed, at, rejected, odd, detector, ml_available, ml_result,
                    rule_anomalies, shown >>

\* Records in which every field is beyond its threshold, so that each of the
\* twelve ifs fires.
EveryRuleIncome ==
    [ income_cv |-> Num(3, 5), max_mom_increase |-> Whole(4),
      max_deviation_from_mean |-> Whole(3) ]

EveryRulePattern ==
    [ near_50k_pct |-> Num(35, 100), near_200k_pct |-> Num(1, 4),
      round_amount_pct |-> Num(7, 10), night_hours_pct |-> Num(4, 10),
      weekend_pct |-> Num(6, 10), velocity_change |-> Whole(4),
      burst_ratio |-> Whole(6), new_source_rate |-> Num(6, 10),
      unverified_rate |-> Num(6, 10), max_gap_days |-> Whole(120),
      amount_change_ratio |-> Whole(3) ]

\* The caller fills in both records at once.
UnitSetEveryField ==
    /\ pc = "unit"
    /\ DOMAIN income_data = {} /\ DOMAIN pattern_data = {}
    /\ income_data' = EveryRuleIncome
    /\ pattern_data' = EveryRulePattern
    /\ UNCHANGED << hash_seed, typed, pc, at, rejected, odd, worker_data, loc, detector,
                    ml_available, ml_result, rule_anomalies, shown >>

NextUnit ==
    \/ UnitSetField
    \/ UnitSetEveryField
    \/ UnitCall
    \/ UnitDisplay
    \/ RuleBasedDetection
    \/ DisplayResults

SpecUnit == InitUnit /\ [][NextUnit]_vars

\* preprocess called directly with records of any fields.
InitVector == InitUnit

NextVector ==
    \/ UnitSetField
    \/ UnitSetEveryField
    \/ UnitPreprocess

SpecVector == InitVector /\ [][NextVector]_vars

\* ------------------------------------------------------------------------
\* The feature computation of collect_monthly_income applied to histories
\* the prompts would not allow (fewer than six months), followed by the
\* rules and the assessment.
\* ------------------------------------------------------------------------

\* The longest history built.
MaxSeries == 3

\* Monthly amounts: nothing, one rupee, a usual month and a large one.
Amounts == {Whole(0), Whole(1), Whole(100), Whole(600)}

\* The amounts the next month may have: a history containing 100.10 holds
\* nothing else.
SeriesChoices(list) ==
    IF list = << >> THEN Amounts \cup {InexactAmount}
    ELSE IF list[1] = InexactAmount THEN {InexactAmount}
    ELSE Amounts

\* collect_pattern_data with ENTER at every prompt from `a` on that has a
\* default, and totals[1], totals[2] for the two half-period totals, which
\* have none.
RECURSIVE PatternWithDefaults(_, _, _, _)
PatternWithDefaults(a, data, locals, totals) ==
    IF a > PatternPrompts THEN data
    ELSE LET response == IF a = 17 THEN Number(totals[1])
                         ELSE IF a = 18 THEN Number(totals[2])
                         ELSE Empty
             prompt == PatternPrompt(a, data)
             got == IF prompt.fn = "int"
                    THEN get_integer(response, prompt.lo, prompt.hi, prompt.default)
                    ELSE get_float(response, prompt.lo, prompt.hi, prompt.default)
             new == PatternAssign(a, got.value, data, locals)
         IN  PatternWithDefaults(a + 1, new.data, new.loc, totals)

\* The half-period totals typed with the defaults.
HalfTotals == { << Whole(600), Whole(600) >>, << Whole(0), Whole(600) >>,
                << Whole(100), Whole(600) >> }

InitIncome ==
    /\ pc = "series"
    /\ at = 0
    /\ rejected = NoResponse
    /\ odd = 0
    /\ worker_data = EmptyDict
    /\ income_data = EmptyDict
    /\ pattern_data = EmptyDict
    /\ loc = [monthly_incomes |-> << >>]
    /\ detector = NewDetector
    /\ ml_available = FALSE
    /\ ml_result = NoMlResult
    /\ rule_anomalies = << >>
    /\ shown = NothingShown
    /\ hash_seed \in HashSeeds
    /\ typed = EmptyDict

\* monthly_incomes.append(income)
SeriesAppend ==
    /\ pc = "series"
    /\ Len(loc["monthly_incomes"]) < MaxSeries
    /\ \E income \in SeriesChoices(loc["monthly_incomes"]) :
          loc' = [monthly_incomes |-> Append(loc["monthly_incomes"], income)]
    /\ UNCHANGED << hash_seed, typed, pc, at, rejected, odd, worker_data, income_data,
                    pattern_data, detector, ml_available, ml_result,
                    rule_anomalies, shown >>

\* The features are computed from the history, and the pattern prompts are
\* answered with their defaults.
SeriesFeatures ==
    /\ pc = "series"
    /\ Len(loc["monthly_incomes"]) >= 1
    /\ income_data' = IncomeFeatures(loc["monthly_incomes"])
    /\ \E totals \in HalfTotals :
          pattern_data' = PatternWithDefaults(1, EmptyDict, EmptyDict, totals)
    /\ loc' = EmptyDict
    /\ pc' = "rules"
    /\ UNCHANGED << hash_seed, typed, at, rejected, odd, worker_data, detector,
                    ml_available, ml_result, rule_anomalies, shown >>

NextIncome ==
    \/ SeriesAppend
    \/ SeriesFeatures
    \/ RuleBasedDetection
    \/ DisplayResults

SpecIncome == InitIncome /\ [][NextIncome]_vars

\* ------------------------------------------------------------------------
\* main, one call per step.  Each of main's variables keeps the value of the
\* finished case until the statement that assigns it runs again, and `typed`
\* records what the collectors of the current case were given.
\* ------------------------------------------------------------------------

\* collect_worker_data from prompt `a` on, with answers[a] typed at prompt a.
RECURSIVE WorkerCollected(_, _, _)
WorkerCollected(a, data, answers) ==
    IF a > Len(answers) THEN data
    ELSE WorkerCollected(a + 1,
                         WorkerAssign(a, WorkerRead(a, answers[a]).value, data),
                         answers)

\* The answers to the four prompts of collect_worker_data.
RunWorkerAnswers ==
    { << Number(Whole(1)), Empty, Number(Whole(1)), Empty >>,
      << Number(Whole(2)), Text("y"), Number(Whole(3)), Empty >> }

\* The histories typed, most recent month first: a level one, one with a
\* large latest month and one with a large earliest month.
RunHistories ==
    { [i \in 1..MaxMonths |-> Whole(100)],
      [i \in 1..MaxMonths |-> IF i = 1 THEN Whole(600) ELSE Whole(100)],
      [i \in 1..MaxMonths |-> IF i = MaxMonths THEN Whole(600) ELSE Whole(100)] }

\* The list of months kept from one call of collect_monthly_income to the
\* next.
StartOfHistoryKept(previous) == previous

\* monthly_incomes = []: every call starts from the empty list, whatever the
\* previous call left.
StartOfHistory(previous) == << >>

InitRun == Init

RunCollectWorker ==
    /\ pc = "worker"
    /\ \E answers \in RunWorkerAnswers :
          /\ worker_data' = WorkerCollected(1, EmptyDict, answers)
          /\ typed' = Put(typed, "worker", answers)
    /\ pc' = "income"
    /\ UNCHANGED << hash_seed, at, rejected, odd, income_data, pattern_data, loc,
                    detector, ml_available, ml_result, rule_anomalies, shown >>

RunCollectIncome ==
    /\ pc = "income"
    /\ \E months \in RunHistories :
          /\ income_data' =
                IncomeFeatures(StartOfHistory(Get(income_data, "monthly_incomes", << >>))
                               \o months)
          /\ typed' = Put(typed, "months", months)
    /\ pc' = "pattern"
    /\ UNCHANGED << hash_seed, at, rejected, odd, worker_data, pattern_data, loc,
                    detector, ml_available, ml_result, rule_anomalies, shown >>

RunCollectPattern ==
    /\ pc = "pattern"
    /\ \E totals \in HalfTotals :
          /\ pattern_data' = PatternWithDefaults(1, EmptyDict, EmptyDict, totals)
          /\ typed' = Put(typed, "totals", totals)
    /\ pc' = "detect"
    /\ UNCHANGED << hash_seed, at, rejected, odd, worker_data, income_data, loc,
                    detector, ml_available, ml_result, rule_anomalies, shown >>

\* if ml_available: ml_result = detector.detect(...), the model answering
\* `out` or the call raising.
RunDetect ==
    /\ pc = "detect"
    /\ ml_available
    /\ \/ \E out \in ModelOutputs(detector.model) :
             /\ ml_result' = DetectResult(detector.model, out)
             /\ typed' = Put(typed, "out", out)
             /\ pc' = "rules"
       \/ /\ pc' = "crashed"
          /\ UNCHANGED << ml_result, typed >>
    /\ UNCHANGED << hash_seed, at, rejected, odd, worker_data, income_data, pattern_data,
                    loc, detector, ml_available, rule_anomalies, shown >>

RunRulesOnly ==
    /\ pc = "detect"
    /\ ~ml_available
    /\ ml_result' = NoMlResult
    /\ typed' = Put(typed, "out", "none")
    /\ pc' = "rules"
    /\ UNCHANGED << hash_seed, at, rejected, odd, worker_data, income_data, pattern_data,
                    loc, detector, ml_available, rule_anomalies, shown >>

\* if not get_yes_no("Analyze another case?"): break.  Nothing is assigned:
\* the variables of the finished case stay as they are.
RunAnalyzeAnother ==
    /\ pc = "again"
    /\ \E response \in {Empty, Text("y")} :
          IF get_yes_no(response, FALSE).value
          THEN pc' = NextCase /\ typed' = EmptyDict
          ELSE pc' = "done" /\ UNCHANGED typed
    /\ UNCHANGED << hash_seed, at, rejected, odd, worker_data, income_data, pattern_data,
                    loc, detector, ml_available, ml_result, rule_anomalies, shown >>

NextRun ==
    \/ Load
    \/ RunCollectWorker
    \/ RunCollectIncome
    \/ RunCollectPattern
    \/ RunDetect
    \/ RunRulesOnly
    \/ RuleBasedDetection
    \/ DisplayResults
    \/ RunAnalyzeAnother

SpecRun == InitRun /\ [][NextRun]_vars

Next ==
    \/ Load
    \/ CollectWorkerData
    \/ CollectMonthlyIncome
    \/ CollectPatternData
    \/ Detect
    \/ RulesOnly
    \/ RuleBasedDetection
    \/ DisplayResults
    \/ AnalyzeAnother

Spec == Init /\ [][Next]_vars

\* ------------------------------------------------------------------------
\* Properties
\* ------------------------------------------------------------------------

\* display_results has printed the assessment of the current case.
Displayed == pc \in {"again", "done"} /\ shown # NothingShown

\* rule_based_detection has returned for the current case.
RulesDone == pc \in {"display", "again", "done"}

\* The classifier probability p of the case, in percent, and its categories.
ClassifierScore == ml_result.anomaly_score
Categories == Range(rule_anomalies)

\* C1: the risk score shown is min(p + 10 * |C|, 100), p the classifier
\* score in percent and C the set of rule categories, and lies in [0, 100].
C1_RiskScoreIsClampedSum ==
    Displayed =>
        LET sum == Add(ClassifierScore, Whole(10 * Cardinality(Categories)))
        IN  /\ shown.risk_score = (IF Lt(sum, Whole(100)) THEN sum ELSE Whole(100))
            /\ Le(Zero, shown.risk_score)
            /\ Le(shown.risk_score, Whole(100))

\* p = 60 with five categories: 110 is shown as 100.
C1_SixtyWithFiveCategories ==
    /\ Displayed
    /\ ClassifierScore = Whole(60)
    /\ Cardinality(Categories) = 5
    /\ shown.risk_score = Whole(100)

HighAdvice == "IMMEDIATE REVIEW REQUIRED - Unusual patterns detected"
MediumAdvice == "MONITORING RECOMMENDED - Some unusual patterns"
LowAdvice == "NORMAL - Patterns consistent with history"

\* C2: the tier shown is HIGH exactly when the risk score is at least 70,
\* MEDIUM exactly when it is at least 40 and below 70, LOW exactly when it is
\* below 40, and each tier comes with its own fixed recommendation.
C2_TierFollowsCutoffs ==
    Displayed =>
        LET r == shown.risk_score
        IN  /\ shown.risk_level \in {"HIGH RISK", "MEDIUM RISK", "LOW RISK"}
            /\ shown.risk_level = "HIGH RISK" <=> ~Lt(r, Whole(70))
            /\ shown.risk_level = "MEDIUM RISK" <=> (~Lt(r, Whole(40)) /\ Lt(r, Whole(70)))
            /\ shown.risk_level = "LOW RISK" <=> Lt(r, Whole(40))
            /\ shown.risk_level = "HIGH RISK" => shown.recommendation = HighAdvice
            /\ shown.risk_level = "MEDIUM RISK" => shown.recommendation = MediumAdvice
            /\ shown.risk_level = "LOW RISK" => shown.recommendation = LowAdvice

\* No classifier and four categories: risk 40 is MEDIUM.
C2_FortyIsMedium ==
    /\ Displayed
    /\ ~ml_available
    /\ ClassifierScore = Zero
    /\ Cardinality(Categories) = 4
    /\ shown.risk_score = Whole(40)
    /\ shown.risk_level = "MEDIUM RISK"
    /\ shown.recommendation = MediumAdvice

\* The rule table of the specification: a row names its category and the
\* tests of which one (any) or all must hold; a test compares a field of one
\* of the two records with a bound, strictly.
Test(rec, key, op, bound) == [rec |-> rec, key |-> key, op |-> op, bound |-> bound]

RuleTable ==
    { [category |-> "high_volatility", all |-> FALSE,
          tests |-> {Test("income", "income_cv", ">", Num(1, 2))}],
      [category |-> "sudden_spike", all |-> FALSE,
          tests |-> {Test("income", "max_mom_increase", ">", Whole(3))}],
      [category |-> "pattern_break", all |-> FALSE,
          tests |-> {Test("income", "max_deviation_from_mean", ">", Whole(2))}],
      [category |-> "structuring", all |-> FALSE,
          tests |-> {Test("pattern", "near_50k_pct", ">", Num(3, 10)),
                     Test("pattern", "near_200k_pct", ">", Num(2, 10))}],
      [category |-> "round_amounts", all |-> FALSE,
          tests |-> {Test("pattern", "round_amount_pct", ">", Num(6, 10))}],
      [category |-> "irregular_timing", all |-> FALSE,
          tests |-> {Test("pattern", "night_hours_pct", ">", Num(3, 10)),
                     Test("pattern", "weekend_pct", ">", Num(5, 10))}],
      [category |-> "velocity_change", all |-> FALSE,
          tests |-> {Test("pattern", "velocity_change", ">", Whole(3)),
                     Test("pattern", "velocity_change", "<", Num(3, 10))}],
      [category |-> "dormant_burst", all |-> FALSE,
          tests |-> {Test("pattern", "burst_ratio", ">", Whole(5))}],
      [category |-> "new_sources", all |-> FALSE,
          tests |-> {Test("pattern", "new_source_rate", ">", Num(5, 10))}],
      [category |-> "ghost_income", all |-> FALSE,
          tests |-> {Test("pattern", "unverified_rate", ">", Num(5, 10))}],
      [category |-> "dormant_burst", all |-> TRUE,
          tests |-> {Test("pattern", "max_gap_days", ">", Whole(90)),
                     Test("pattern", "amount_change_ratio", ">", Whole(2))}],
      [category |-> "weekend_heavy", all |-> FALSE,
          tests |-> {Test("pattern", "weekend_pct", ">", Num(4, 10))}] }

\* The value a test reads: the field, or 1 for the three ratios of two
\* amounts and 0 for every other field when the record lacks it.
TestValue(t) ==
    LET data == IF t.rec = "income" THEN income_data ELSE pattern_data
    IN  IF t.key \in DOMAIN data THEN data[t.key]
        ELSE IF t.key \in {"velocity_change", "burst_ratio", "amount_change_ratio"}
        THEN One ELSE Zero

TestHolds(t) ==
    IF t.op = ">" THEN Lt(t.bound, TestValue(t)) ELSE Lt(TestValue(t), t.bound)

RowHolds(row) ==
    IF row.all THEN \A t \in row.tests : TestHolds(t)
    ELSE \E t \in row.tests : TestHolds(t)

\* C3: the categories returned are exactly the categories of the rows of the
\* rule table whose condition holds, each row judged on its own; a field
\* equal to its threshold does not trigger, and near_50k_pct above 0.3 puts
\* structuring in the result whatever the other fields are.
C3_CategoriesAreTheRowsThatHold ==
    pc = "display" =>
        /\ Categories = {row.category : row \in {r \in RuleTable : RowHolds(r)}}
        /\ \A row \in RuleTable :
              (\A t \in row.tests : TestValue(t) = t.bound)
                  => (row.category \in Categories
                         <=> \E other \in RuleTable \ {row} :
                                other.category = row.category /\ RowHolds(other))
        /\ ("near_50k_pct" \in DOMAIN pattern_data
               /\ Lt(Num(3, 10), pattern_data["near_50k_pct"]))
              => "structuring" \in Categories

\* near_50k_pct = 0.35 next to another field sitting at its own threshold:
\* structuring is returned and the other row is not.
C3_StructuringAboveThreshold ==
    /\ pc = "display"
    /\ "near_50k_pct" \in DOMAIN pattern_data
    /\ pattern_data["near_50k_pct"] = Num(35, 100)
    /\ "round_amount_pct" \in DOMAIN pattern_data
    /\ pattern_data["round_amount_pct"] = Num(6, 10)
    /\ Categories = {"structuring"}

\* How often label c occurs in the list.
Occurrences(list, c) == Cardinality({i \in DOMAIN list : list[i] = c})

BurstRuleFires == Lt(Whole(5), Get(pattern_data, "burst_ratio", One))

GapRuleFires ==
    /\ Lt(Whole(90), Get(pattern_data, "max_gap_days", Zero))
    /\ Lt(Whole(2), Get(pattern_data, "amount_change_ratio", One))

\* C4: no label occurs twice in the list returned; when the burst rule and
\* the gap rule both fire, dormant_burst occurs once and the risk score
\* counts it once.
C4_NoLabelTwice ==
    /\ RulesDone =>
          /\ \A c \in Categories : Occurrences(rule_anomalies, c) = 1
          /\ (BurstRuleFires /\ GapRuleFires)
                => Occurrences(rule_anomalies, "dormant_burst") = 1
    /\ (pc = "again" /\ BurstRuleFires /\ GapRuleFires) =>
          LET others == Cardinality(Categories \ {"dormant_burst"})
              sum == Add(ClassifierScore, Whole(10 + 10 * others))
          IN  shown.risk_score = (IF Lt(sum, Whole(100)) THEN sum ELSE Whole(100))

\* Both rules fire and nothing else: one label, ten points.
C4_BothDormantRulesFire ==
    /\ pc = "again"
    /\ BurstRuleFires
    /\ GapRuleFires
    /\ rule_anomalies = << "dormant_burst" >>
    /\ ClassifierScore = Zero
    /\ shown.risk_score = Whole(10)

\* C5: with the classifier unavailable, because its load failed or because
\* detect could not produce a score, main still completes the case: the
\* score used is 0, the risk shown is min(10 * |C|, 100), and no failure of
\* the classifier ends the run.
C5_ClassifierFailureNeverAborts ==
    /\ pc # "crashed"
    /\ (Displayed /\ ~ml_available) =>
          /\ ClassifierScore = Zero
          /\ shown.risk_score =
                (IF Cardinality(Categories) < 10
                 THEN Whole(10 * Cardinality(Categories)) ELSE Whole(100))

\* The numbers a record of features holds.
NumbersIn(data) ==
    UNION { IF k \in {"monthly_incomes", "mode_entropy"} THEN Range(data[k])
            ELSE {data[k]} : k \in DOMAIN data }

\* C6: feature extraction is total: no field of the two records it returns
\* is undefined, NaN or infinite.
C6_EveryFieldIsFinite ==
    \A v \in NumbersIn(income_data) \cup NumbersIn(pattern_data) : IsFinite(v)

\* The prompts of collect_pattern_data whose answer is stored as a ratio.
RatioKey(a) ==
    CASE a = 5  -> "weekend_pct"
      [] a = 6  -> "night_hours_pct"
      [] a = 7  -> "round_amount_pct"
      [] a = 8  -> "near_50k_pct"
      [] a = 9  -> "near_200k_pct"
      [] a = 11 -> "source_concentration"
      [] a = 12 -> "new_source_rate"
      [] a = 13 -> "unverified_rate"
      [] a = 14 -> "cash_deposit_rate"

RatioPrompts == {5, 6, 7, 8, 9, 11, 12, 13, 14}

\* The numbers among `responses` that lie within [lo, hi].
TypedWithin(responses, lo, hi) ==
    {r.val : r \in {x \in responses : x.kind = "num" /\ Le(lo, x.val) /\ Le(x.val, hi)}}

\* What ratio prompt a can store: its default or a percentage typed within
\* 0..100, divided by 100.
RatioChoices ==
    [a \in RatioPrompts |->
        {Div(v, Whole(100)) :
            v \in {PatternPrompt(a, EmptyDict).default}
                     \cup TypedWithin({PatternUsual(a)} \cup PatternOthers(a),
                                      Whole(0), Whole(100))}]

\* What the prompt of a month can store: an amount typed within 0..1e8.
MonthChoices ==
    [a \in 2..(MaxMonths + 1) |->
        TypedWithin({IncomeUsual(a)} \cup IncomeOthers(a), Whole(0), Whole(100000000))]

\* C7 as stated: an invalid raw input is clamped at the boundary of its
\* range and not rejected, so no numeric answer is ever refused.
C7_InvalidInputIsClamped == rejected.kind # "num"

\* C7: an invalid raw input is refused and asked for again, never clamped:
\* while an answer stands refused its field is not stored, and every month
\* and ratio main hands to the rule bank is a default or a number typed
\* within the range of its prompt, the ratios lying in [0, 1].
C7_InvalidInputIsRefused ==
    /\ (pc = "income" /\ at > 1 /\ rejected # NoResponse)
          => Len(loc["monthly_incomes"]) = at - 2
    /\ (pc = "pattern" /\ at \in RatioPrompts /\ rejected # NoResponse)
          => RatioKey(at) \notin DOMAIN pattern_data
    /\ pc = "rules" =>
          /\ \A i \in DOMAIN income_data["monthly_incomes"] :
                income_data["monthly_incomes"][i] \in MonthChoices[i + 1]
          /\ \A a \in RatioPrompts :
                /\ pattern_data[RatioKey(a)] \in RatioChoices[a]
                /\ Le(Zero, pattern_data[RatioKey(a)])
                /\ Le(pattern_data[RatioKey(a)], One)

\* 150 typed for the weekend percentage: refused, nothing stored.
C7_PercentageAboveHundredRefused ==
    /\ pc = "pattern"
    /\ at = 5
    /\ rejected = Number(Whole(150))
    /\ "weekend_pct" \notin DOMAIN pattern_data

\* C8: rule_based_detection returns for any records, a missing field reads
\* as its neutral value, two empty records give no category, and taking a
\* field away from a record never adds a category.
C8_MissingFieldsAreNeutral ==
    pc = "display" =>
        /\ (DOMAIN income_data = {} /\ DOMAIN pattern_data = {})
              => rule_anomalies = << >>
        /\ \A k \in DOMAIN income_data :
              Range(rule_based_detection(Remove(income_data, k), pattern_data))
                  \subseteq Categories
        /\ \A k \in DOMAIN pattern_data :
              Range(rule_based_detection(income_data, Remove(pattern_data, k)))
                  \subseteq Categories

\* A record with no income field at all and a velocity that triggers:
\* without the velocity field the category goes and none comes.
C8_RemovingVelocityRemovesItsCategory ==
    /\ pc = "display"
    /\ DOMAIN income_data = {}
    /\ "velocity_change" \in DOMAIN pattern_data
    /\ "velocity_change" \in Categories
    /\ "velocity_change" \notin
          Range(rule_based_detection(income_data, Remove(pattern_data, "velocity_change")))

TierRank(level) ==
    CASE level = "LOW RISK" -> 0
      [] level = "MEDIUM RISK" -> 1
      [] level = "HIGH RISK" -> 2

\* Classifier scores and category lists to compare a case with.
ScoreGrid == {Num(k, 100) : k \in {0, 3999, 6000, 8500, 10000}}
CategoryLists ==
    [n \in 0..Len(ANOMALY_DESCRIPTIONS) |-> SubSeq(ANOMALY_DESCRIPTIONS, 1, n)]

\* C9: the risk score does not go down when the classifier score or the
\* number of categories goes up, and neither does the tier.
C9_RiskIsMonotone ==
    pc = "again" =>
        \A p2 \in ScoreGrid, n2 \in Len(rule_anomalies)..Len(ANOMALY_DESCRIPTIONS) :
            Le(ClassifierScore, p2)
                => LET score == RiskScore([ml_result EXCEPT !.anomaly_score = p2],
                                          CategoryLists[n2])
                   IN  /\ Le(shown.risk_score, score)
                       /\ TierRank(shown.risk_level) <= TierRank(RiskLevel(score))

\* A case with a classifier score and no category, below the cap.
C9_ScoreWithoutCategories ==
    /\ Displayed
    /\ ClassifierScore = Whole(85)
    /\ rule_anomalies = << >>
    /\ shown.risk_score = Whole(85)

\* C10: either signal reaches HIGH on its own: no category and a classifier
\* score of at least 70, or a classifier score of 0 and at least seven
\* categories.
C10_EitherSignalReachesHigh ==
    Displayed =>
        /\ (rule_anomalies = << >> /\ Le(Whole(70), ClassifierScore))
              => shown.risk_level = "HIGH RISK"
        /\ (ClassifierScore = Zero /\ Cardinality(Categories) >= 7)
              => shown.risk_level = "HIGH RISK"

\* Answers the collectors accept, no classifier, seven categories: HIGH.
C10_SevenCategoriesAlone ==
    /\ Displayed
    /\ ~ml_available
    /\ ClassifierScore = Zero
    /\ Cardinality(Categories) = 7
    /\ shown.risk_score = Whole(70)
    /\ shown.risk_level = "HIGH RISK"

\* C11: assessing the same input twice gives identical output: the same
\* categories in the same order, the same description lines in the same
\* order, the same risk score, tier and recommendation, whichever run of the
\* program assesses it.
C11_SameInputSameOutput ==
    Displayed =>
        \A seed \in HashSeeds :
            LET elsewhere == ListOfSetIn(SetOrder(seed), rule_anomalies)
            IN  /\ elsewhere = rule_anomalies
                /\ display_results(ml_result, elsewhere) = shown

\* The features of a history have been computed.
FeaturesDone == "monthly_incomes" \in DOMAIN income_data

Months == income_data["monthly_incomes"]

\* C12: for a history of one month, whatever its amount, income_cv,
\* max_mom_increase, max_mom_decrease, avg_mom_change,
\* max_deviation_from_mean and pct_high_deviation are all exactly 0.
C12_OneMonthAllZero ==
    (FeaturesDone /\ Len(Months) = 1) =>
        \A k \in {"income_cv", "max_mom_increase", "max_mom_decrease",
                  "avg_mom_change", "max_deviation_from_mean",
                  "pct_high_deviation"} :
            income_data[k] = Zero

\* One month of 600.
C12_SingleLargeMonth ==
    /\ pc = "rules"
    /\ FeaturesDone
    /\ Months = << Whole(600) >>
    /\ income_data["income_cv"] = Zero
    /\ income_data["max_deviation_from_mean"] = Zero

IncomeCategories == {"high_volatility", "sudden_spike", "pattern_break"}

\* C13: for a history of zeros of any length, income_cv,
\* max_deviation_from_mean and pct_high_deviation are 0 and no income rule
\* (high_volatility, sudden_spike, pattern_break) triggers.
C13_AllZeroHistory ==
    (FeaturesDone /\ Range(Months) = {Zero}) =>
        /\ income_data["income_cv"] = Zero
        /\ income_data["max_deviation_from_mean"] = Zero
        /\ income_data["pct_high_deviation"] = Zero
        /\ Range(rule_based_detection(income_data, pattern_data))
              \cap IncomeCategories = {}
        /\ RulesDone => Categories \cap IncomeCategories = {}

\* Three months of nothing, through the rules.
C13_ThreeMonthsOfNothing ==
    /\ pc = "display"
    /\ FeaturesDone
    /\ Months = << Zero, Zero, Zero >>
    /\ rule_anomalies = << >>

\* The change from the month before the most recent one to the most recent
\* one: month 1 of the list is the most recent, month 2 the one before it.
LatestChange == Div(Sub(Months[1], Months[2]), Add(Months[2], One))

\* C14: when the most recent month is a spike over the month before it,
\* (curr - prev) / (prev + 1) > 3, then max_mom_increase > 3 and sudden_spike
\* is among the categories.
C14_RecentSpikeIsSuddenSpike ==
    (RulesDone /\ FeaturesDone /\ Len(Months) >= 2 /\ Lt(Whole(3), LatestChange))
        => /\ Lt(Whole(3), income_data["max_mom_increase"])
           /\ "sudden_spike" \in Categories

\* C15: for a history whose months are all equal, with every pattern prompt
\* at its default, income_cv, the three month-over-month fields and the two
\* deviation fields are 0 and no rule triggers.
C15_ConstantHistoryIsQuiet ==
    (RulesDone /\ FeaturesDone /\ Cardinality(Range(Months)) = 1) =>
        /\ \A k \in {"income_cv", "max_mom_increase", "max_mom_decrease",
                     "avg_mom_change", "max_deviation_from_mean",
                     "pct_high_deviation"} :
              income_data[k] = Zero
        /\ rule_anomalies = << >>

\* Other orders to run the twelve rules in: backwards, and the even-numbered
\* rules of each half before the odd-numbered ones, second half first.
RuleOrders ==
    { Reverse(RULE_ORDER),
      << 8, 10, 12, 7, 9, 11, 2, 4, 6, 1, 3, 5 >> }

\* C16: running the twelve rules in another order gives the same set of
\* categories.
C16_RuleOrderDoesNotMatter ==
    pc = "display" =>
        \A order \in RuleOrders :
            Range(ListOfSet(RunRules(order, income_data, pattern_data, << >>)))
                = Categories

\* Three fields, three rules firing.
C16_ThreeRulesFire ==
    /\ pc = "display"
    /\ Cardinality(DOMAIN income_data \cup DOMAIN pattern_data) = 3
    /\ Cardinality(Categories) = 3

\* main has its classifier result for the case.
Scored == pc \in {"rules", "display", "again", "done"}

\* C17: the confidence in the result is 0 exactly when the classifier was
\* unavailable; a result detect produced has confidence
\* max(score, 100 - score), which is at least 50.
C17_ConfidenceTellsRuleOnlyMode ==
    Scored =>
        LET score == ml_result.anomaly_score
            rest == Sub(Whole(100), score)
        IN  /\ ml_result.confidence = Zero <=> ~ml_available
            /\ ml_available =>
                  /\ ml_result.confidence = (IF Lt(score, rest) THEN rest ELSE score)
                  /\ Le(Whole(50), ml_result.confidence)

\* A genuine low score: 39.99 with confidence 60.01.
C17_GenuineLowScore ==
    /\ pc = "again"
    /\ ml_available
    /\ ml_result.anomaly_score = Num(3999, 100)
    /\ ml_result.confidence = Num(6001, 100)
    /\ ~ml_result.is_anomaly

\* C18: display_results prints the description of every label of the list
\* that ANOMALY_DESCRIPTIONS has, once, prints nothing for a label it does
\* not have, and every label rule_based_detection returns is in the table.
C18_OneDescriptionPerLabel ==
    /\ pc \in {"again", "direct"} =>
          /\ \A c \in Range(rule_anomalies) :
                Occurrences(shown.descriptions, c)
                    = (IF c \in Range(ANOMALY_DESCRIPTIONS) THEN 1 ELSE 0)
          /\ Range(shown.descriptions) \subseteq Range(rule_anomalies)
    /\ pc = "display" =>
          /\ rule_anomalies = rule_based_detection(income_data, pattern_data)
          /\ Range(rule_anomalies) \subseteq Range(ANOMALY_DESCRIPTIONS)

\* A list with a label the table lacks between two it has.
C18_UnknownLabelSkipped ==
    /\ pc = "direct"
    /\ rule_anomalies = << "sudden_spike", "smurfing", "weekend_heavy" >>
    /\ shown.descriptions = << "sudden_spike", "weekend_heavy" >>

\* The changes between adjacent months in the order of time: of the stored
\* months i and i + 1 the later one is month i.
ChronologicalChanges ==
    [i \in 1..(Len(Months) - 1) |->
        Div(Sub(Months[i], Months[i + 1]), Add(Months[i + 1], One))]

\* C19: each month-over-month change is (curr - prev) / (prev + 1) with prev
\* the earlier and curr the later month of an adjacent pair, for the order
\* in which collect_monthly_income stores the history.
C19_ChangesFollowTime ==
    (FeaturesDone /\ Len(Months) >= 2) =>
        /\ income_data["max_mom_increase"] = MaxOf(ChronologicalChanges)
        /\ income_data["max_mom_decrease"] = AbsNum(MinOf(ChronologicalChanges))
        /\ income_data["avg_mom_change"]
              = Mean([i \in DOMAIN ChronologicalChanges |->
                         AbsNum(ChronologicalChanges[i])])

\* The months whose deviation |amount - mean| / mean exceeds 1.
HighDeviationMonths ==
    {i \in DOMAIN Months :
        /\ Lt(Zero, Mean(Months))
        /\ Lt(One, Div(AbsNum(Sub(Months[i], Mean(Months))), Mean(Months)))}

\* C20: pct_high_deviation is the fraction of months whose deviation
\* |amount - mean| / mean exceeds 1 (0 when the mean is 0), so it is positive
\* exactly when max_deviation_from_mean exceeds 1.
C20_HighDeviationShare ==
    FeaturesDone =>
        /\ income_data["pct_high_deviation"]
              = Num(Cardinality(HighDeviationMonths), Len(Months))
        /\ Lt(Zero, income_data["pct_high_deviation"])
              <=> Lt(One, income_data["max_deviation_from_mean"])

\* No adjacent pair of the stored history falls / rises from one element to
\* the next.
NoDecreasingPair == \A i \in 1..(Len(Months) - 1) : ~Lt(Months[i + 1], Months[i])
NoIncreasingPair == \A i \in 1..(Len(Months) - 1) : ~Lt(Months[i], Months[i + 1])

\* C21: max_mom_increase and max_mom_decrease are both >= 0 for every
\* history; a history with no decreasing pair has max_mom_decrease = 0 and a
\* history with no increasing pair has max_mom_increase = 0.
C21_ExtremesOfTheChanges ==
    FeaturesDone =>
        /\ Le(Zero, income_data["max_mom_increase"])
        /\ Le(Zero, income_data["max_mom_decrease"])
        /\ NoDecreasingPair => income_data["max_mom_decrease"] = Zero
        /\ NoIncreasingPair => income_data["max_mom_increase"] = Zero

\* What a guarded ratio must be: the quotient over a positive denominator,
\* the default otherwise.
QuotientOr(value, denominator, default) ==
    IF Lt(Zero, denominator) THEN Div(value, denominator) ELSE default

\* The pattern record with the three ratios the rules read at their
\* defaults and the longest gap a prompt accepts.
WithRatioDefaults ==
    Put(Put(Put(Put(pattern_data, "velocity_change", One), "burst_ratio", One),
            "amount_change_ratio", One), "max_gap_days", Whole(365))

\* C22: every guarded ratio of collect_pattern_data is its default when its
\* denominator is not positive and the quotient otherwise (velocity_change,
\* burst_ratio, amount_change_ratio: 1; gap_irregularity, freq_cv: 0), and
\* the defaults trigger no rule.
C22_GuardedRatiosTakeTheirDefaults ==
    /\ (pc = "pattern" /\ at >= 19) =>
          LET avg == pattern_data["avg_tx_per_month"]
          IN  /\ pattern_data["freq_cv"]
                    = QuotientOr(Sub(loc["max_tx"], avg), avg, Zero)
              /\ pattern_data["velocity_change"]
                    = QuotientOr(loc["new_avg"], loc["old_avg"], One)
              /\ pattern_data["burst_ratio"] = QuotientOr(loc["max_tx"], avg, One)
              /\ pattern_data["amount_change_ratio"]
                    = QuotientOr(loc["second_half_total"], loc["first_half_total"], One)
    /\ pc = "detect" =>
          pattern_data["gap_irregularity"]
              = QuotientOr(AbsNum(Sub(pattern_data["max_gap_days"],
                                      pattern_data["avg_gap_days"])),
                           pattern_data["avg_gap_days"], Zero)
    /\ pc = "display" =>
          \A i \in {7, 8, 11} : ~Rule(i, income_data, WithRatioDefaults).fires

\* Nothing earned in the first half: the ratio is 1.
C22_ZeroFirstHalf ==
    /\ pc = "pattern"
    /\ at = 19
    /\ loc["first_half_total"] = Zero
    /\ loc["second_half_total"] = Whole(600)
    /\ pattern_data["amount_change_ratio"] = One

\* The payment-mode shares the entropy was computed from.
ModeShares == pattern_data["mode_entropy"]

\* The four modes in percent: UPI, NEFT/IMPS, cash deposits and the rest.
ModePercents ==
    LET cash == Mul(pattern_data["cash_deposit_rate"], Whole(100))
    IN  << loc["upi_pct"], loc["neft_pct"], cash,
           Sub(Sub(Sub(Whole(100), loc["upi_pct"]), loc["neft_pct"]), cash) >>

\* C23: the shares that enter the entropy are the strictly positive ones of
\* UPI, NEFT/IMPS, cash deposit and the remainder, and for every input the
\* prompts accept they form a distribution: each in (0, 1], summing to 1.
C23_ModeSharesAreADistribution ==
    /\ (pc = "pattern" /\ at >= 17) =>
          Range(ModeShares)
              = {Div(ModePercents[i], Whole(100)) :
                    i \in {j \in 1..4 : Lt(Zero, ModePercents[j])}}
    /\ "mode_entropy" \in DOMAIN pattern_data =>
          /\ \A i \in DOMAIN ModeShares :
                Lt(Zero, ModeShares[i]) /\ Le(ModeShares[i], One)
          /\ Sum(ModeShares) = One

\* What entry `name` of the feature vector must be for the three records:
\* the code of a known category, the field of that name (income before
\* pattern before worker record), and 0 for everything else.
ExpectedFeature(name, worker, pattern, income) ==
    IF name = "sector_encoded"
    THEN (IF "sector" \in DOMAIN worker /\ worker["sector"] \in Range(SECTOR_CLASSES)
          THEN Whole((CHOOSE i \in DOMAIN SECTOR_CLASSES :
                         SECTOR_CLASSES[i] = worker["sector"]) - 1)
          ELSE Zero)
    ELSE IF name = "income_tier_encoded"
    THEN (IF "income_tier" \in DOMAIN worker
             /\ worker["income_tier"] \in Range(TIER_CLASSES)
          THEN Whole((CHOOSE i \in DOMAIN TIER_CLASSES :
                         TIER_CLASSES[i] = worker["income_tier"]) - 1)
          ELSE Zero)
    ELSE IF name \in DOMAIN income THEN income[name]
    ELSE IF name \in DOMAIN pattern THEN pattern[name]
    ELSE IF name \in DOMAIN worker THEN worker[name]
    ELSE Zero

\* C24: for any combination of present and absent keys, preprocess builds a
\* vector with exactly one entry per name of feature_names, in that order,
\* 0 for an absent feature and for a category the encoder does not know, and
\* it leaves worker_data, pattern_data and income_data as they were.
C24_VectorHasTheFixedSchema ==
    [][pc' = "vector" =>
          /\ DOMAIN loc'["feature_vector"] = 1..Len(FEATURE_NAMES)
          /\ \A i \in 1..Len(FEATURE_NAMES) :
                loc'["feature_vector"][i]
                    = ExpectedFeature(FEATURE_NAMES[i], worker_data',
                                      pattern_data, income_data)
          /\ worker_data' \in UnitWorkers
          /\ pattern_data' = pattern_data
          /\ income_data' = income_data]_vars

\* A sector the encoder does not know, no tier, and only income_cv and
\* weekend_pct of the features: code 0, and 0 wherever a feature is absent.
C24_UnknownSectorAndAbsentFeatures ==
    /\ pc = "vector"
    /\ worker_data = [sector |-> "gig_worker", is_formal |-> 1]
    /\ DOMAIN income_data = {"income_cv"}
    /\ DOMAIN pattern_data = {"weekend_pct"}
    /\ loc["feature_vector"][20] = Zero
    /\ loc["feature_vector"][21] = Zero
    /\ loc["feature_vector"][22] = 1
    /\ loc["feature_vector"][6] = income_data["income_cv"]
    /\ loc["feature_vector"][2] = pattern_data["weekend_pct"]
    /\ loc["feature_vector"][1] = Zero

\* C25: in a run of main, load runs once, before the first classification,
\* and no later step changes the model, the scaler, the label encoders, the
\* feature names or the availability flag.
C25_LoadedOnceThenUnchanged ==
    [][/\ pc = "load" => pc' # "load"
       /\ pc # "load" =>
             /\ pc' # "load"
             /\ detector' = detector
             /\ ml_available' = ml_available]_vars

\* A later case of a run is being classified by the classifier loaded at the
\* start: the assessment of the case before it is still on the screen.
C25_LaterCaseSameClassifier ==
    /\ pc = "rules"
    /\ shown # NothingShown
    /\ ml_available
    /\ detector = LoadInto(NewDetector, "classifier", "none").detector

\* Every collector of the current case has run, and the classifier branch.
CaseRead == DOMAIN typed = {"worker", "months", "totals", "out"}

\* The categories, classifier score, risk score and tier that follow from
\* what the current case's collectors were given.
OwnCategories ==
    Range(RunRules(RULE_ORDER, IncomeFeatures(typed["months"]),
                   PatternWithDefaults(1, EmptyDict, EmptyDict, typed["totals"]),
                   << >>))

OwnScore ==
    IF ml_available THEN DetectResult(detector.model, typed["out"]).anomaly_score
    ELSE Zero

OwnRisk ==
    LET sum == Add(OwnScore, Whole(10 * Cardinality(OwnCategories)))
    IN  IF Lt(sum, Whole(100)) THEN sum ELSE Whole(100)

\* C26: the category set, risk score and tier of a case follow from that
\* case's inputs and the classifier's availability alone, whatever cases
\* came before it in the run.
C26_CaseDependsOnItsOwnInputs ==
    /\ pc \in {"display", "again", "done"} =>
          /\ CaseRead
          /\ Categories = OwnCategories
    /\ pc \in {"again", "done"} =>
          /\ shown.risk_score = OwnRisk
          /\ shown.risk_level
                = (IF Le(Whole(70), OwnRisk) THEN "HIGH RISK"
                   ELSE IF Le(Whole(40), OwnRisk) THEN "MEDIUM RISK"
                   ELSE "LOW RISK")

\* A level history with no category, after a case that had one: its
\* assessment is about to replace the earlier one.
C26_QuietCaseAfterFlaggedCase ==
    /\ pc = "display"
    /\ typed["months"] = [i \in 1..MaxMonths |-> Whole(100)]
    /\ rule_anomalies = << >>
    /\ shown.descriptions # << >>

\* The labels the twelve ifs append.
RuleLabels == {Rule(i, EmptyDict, EmptyDict).label : i \in DOMAIN RULE_ORDER}

\* C27: rule_based_detection never returns layering or low_verification,
\* though the description table has both; it returns at most 11 distinct
\* labels, so the rules add at most 110 to the unclamped risk sum.
C27_ElevenLabelsAtMost ==
    pc = "display" =>
       /\ {"layering", "low_verification"} \subseteq Range(ANOMALY_DESCRIPTIONS)
       /\ Categories \subseteq RuleLabels
       /\ "layering" \notin Categories
       /\ "low_verification" \notin Categories
       /\ Len(rule_anomalies) <= 11
       /\ Le(Sub(RiskScoreUnclamped(ml_result, rule_anomalies), ml_result.anomaly_score),
             Whole(110))

\* Every if has fired: eleven labels come back and the rules add 110.
C27_EveryRuleFired ==
    /\ pc = "display"
    /\ income_data = EveryRuleIncome
    /\ pattern_data = EveryRulePattern
    /\ Len(rule_anomalies) = 11
    /\ Categories = Range(ANOMALY_DESCRIPTIONS) \ {"layering", "low_verification"}
    /\ Sub(RiskScoreUnclamped(ml_result, rule_anomalies), ml_result.anomaly_score)
          = Whole(110)

\* ------------------------------------------------------------------------
\* AnomalyDetector.load called any number of times on one detector, each
\* call with its own failing load (or none).
\* ------------------------------------------------------------------------

MaxCalls == 3

\* The calls made so far: which load failed, what the call returned, and the
\* detector before and after it.
Calls == Get(typed, "calls", << >>)

InitLoad ==
    /\ pc = "constructed"
    /\ at = 0
    /\ rejected = NoResponse
    /\ odd = 0
    /\ worker_data = EmptyDict
    /\ income_data = EmptyDict
    /\ pattern_data = EmptyDict
    /\ loc = EmptyDict
    /\ detector = NewDetector
    /\ ml_available = FALSE
    /\ ml_result = NoResult
    /\ rule_anomalies = << >>
    /\ shown = NothingShown
    /\ hash_seed \in HashSeeds
    /\ typed = EmptyDict

\* detector.load()
LoadCall ==
    /\ pc = "constructed"
    /\ Len(Calls) < MaxCalls
    /\ \E kind \in ModelKinds, failing \in Range(LoadSteps) \cup {"none"} :
          LET res == LoadInto(detector, kind, failing)
          IN  /\ detector' = res.detector
              /\ ml_available' = res.returns
              /\ typed' = Put(typed, "calls",
                              Append(Calls, [ failing |-> failing,
                                              returns |-> res.returns,
                                              before |-> detector,
                                              after |-> res.detector ]))
    /\ UNCHANGED << hash_seed, pc, at, rejected, odd, worker_data, income_data,
                    pattern_data, loc, ml_result, rule_anomalies, shown >>

NextLoad == LoadCall

SpecLoad == InitLoad /\ [][NextLoad]_vars

\* C28: is_loaded is True only if some call returned True having loaded all
\* four components; a call in which a load fails returns False and leaves
\* is_loaded as it was, also when it had already assigned components.
C28_LoadedOnlyAfterACompleteCall ==
    /\ detector.is_loaded =>
          /\ \A c \in Range(LoadSteps) : detector[c] # "None"
          /\ \E i \in DOMAIN Calls :
                /\ Calls[i].returns
                /\ Calls[i].failing = "none"
                /\ \A c \in Range(LoadSteps) : Calls[i].after[c] # "None"
    /\ \A i \in DOMAIN Calls :
          Calls[i].failing # "none" =>
             /\ ~Calls[i].returns
             /\ Calls[i].after.is_loaded = Calls[i].before.is_loaded

\* The first call assigned model, scaler and encoders, then failed on the
\* feature names: the detector holds the three and is not loaded.
C28_FailedOnTheLastLoad ==
    /\ Len(Calls) = 1
    /\ Calls[1].failing = "feature_names"
    /\ ~ml_available
    /\ detector.model # "None"
    /\ detector.scaler # "None"
    /\ detector.label_encoders # "None"
    /\ detector.feature_names = "None"
    /\ ~detector.is_loaded

\* The case was classified by a model without predict_proba.
ForestCase ==
    /\ ml_available
    /\ detector.model = "isolation_forest"
    /\ "out" \in DOMAIN typed

\* C29: without predict_proba the score is 50 when the model predicts -1 and
\* 10 otherwise, is_anomaly holds exactly when the score is 50, the
\* classifier alone gives MEDIUM at most and HIGH needs two categories.
C29_ForestScoresFiftyOrTen ==
    (ForestCase /\ pc \in {"rules", "display", "again", "done"}) =>
       /\ ml_result.anomaly_score
             = (IF typed["out"].predict = -1 THEN Whole(50) ELSE Whole(10))
       /\ ml_result.is_anomaly <=> ml_result.anomaly_score = Whole(50)
       /\ RiskLevel(RiskScore(ml_result, << >>)) # "HIGH RISK"
       /\ pc \in {"again", "done"} =>
             /\ shown.risk_level = "HIGH RISK" => Len(rule_anomalies) >= 2
             /\ rule_anomalies = << >> =>
                   shown.risk_level
                      = (IF ml_result.is_anomaly THEN "MEDIUM RISK" ELSE "LOW RISK")

\* The model predicted -1 and two categories were triggered: 50 + 20 is HIGH.
C29_ForestAndTwoCategories ==
    /\ ForestCase
    /\ pc = "again"
    /\ typed["out"].predict = -1
    /\ ml_result.is_anomaly
    /\ Len(rule_anomalies) = 2
    /\ shown.risk_score = Whole(70)
    /\ shown.risk_level = "HIGH RISK"

\* ------------------------------------------------------------------------
\* apl_bpl_model/api.py: the /classify endpoint
\* ------------------------------------------------------------------------

\* A value of the request's JSON body.
JNum(x) == [kind |-> "num", v |-> x, s |-> ""]
JBool(b) == [kind |-> "bool", v |-> IF b THEN One ELSE Zero, s |-> ""]
JStr(s) == [kind |-> "str", v |-> Zero, s |-> s]
JNull == [kind |-> "null", v |-> Zero, s |-> ""]

\* to_int of analyze_secc_criteria: a bool becomes 1 or 0, anything else
\* falsy becomes 0, anything else is left as it is.
to_int(val) ==
    IF val.kind = "bool" THEN JNum(val.v)
    ELSE IF val.kind = "null" \/ val = JStr("") \/ val = JNum(Zero) THEN JNum(Zero)
    ELSE val

\* x == 1 and x == 0 in Python (True == 1; a str or None equals no number).
IsNumber(val) == val.kind \in {"num", "bool"}
EqualsOne(val) == IsNumber(val) /\ val.v = One
EqualsZero(val) == IsNumber(val) /\ val.v = Zero

\* to_int(data.get(key, 0)) == 1
FlagSet(data, key) == EqualsOne(to_int(Get(data, key, JNum(Zero))))

\* The flag criteria: label and key.
EXCLUSION_FLAGS ==
    << << "Owns motorized 2-wheeler", "owns_two_wheeler" >>,
       << "Owns 3/4 wheeler", "owns_four_wheeler" >>,
       << "Owns tractor/harvester", "owns_tractor" >>,
       << "Owns mechanized equipment", "owns_mechanized_equipment" >>,
       << "Has government employee", "has_govt_employee" >>,
       << "Pays income tax", "pays_income_tax" >>,
       << "Pays professional tax", "pays_professional_tax" >>,
       << "Owns refrigerator", "owns_refrigerator" >>,
       << "Owns landline phone", "owns_landline" >> >>

INCLUSION_FLAGS ==
    << << "Houseless", "is_houseless" >>,
       << "Destitute (living on alms)", "is_destitute" >>,
       << "Manual scavenger", "is_manual_scavenger" >>,
       << "Primitive Tribal Group", "is_pvtg" >>,
       << "Bonded laborer", "is_bonded_laborer" >> >>

FlagsMet(flags, data) == {f[1] : f \in {g \in Range(flags) : FlagSet(data, g[2])}}

\* data.get(key, '') and data.get(key, 0)
TextOf(data, key) == Get(data, key, JStr(""))
Count(data, key) == Get(data, key, JNum(Zero))

\* The ordered comparisons analyze_secc_criteria evaluates for this body:
\* one of them on a value that is no number raises TypeError.
OrderedOperands(data) ==
    {Count(data, "kcc_limit"), Count(data, "total_land_acres"),
     Count(data, "highest_earner_monthly")}
       \cup (IF TextOf(data, "house_type") \in {JStr("pucca"), JStr("kucha"), JStr("houseless"),
                                     JStr("temporary_plastic")}
             THEN {Count(data, "num_rooms")} ELSE {})

SeccRaises(data) == \E val \in OrderedOperands(data) : ~IsNumber(val)

exclusion_met(data) ==
    FlagsMet(EXCLUSION_FLAGS, data)
       \cup (IF Ge(Count(data, "kcc_limit").v, Whole(50000))
             THEN {"KCC limit >= Rs.50,000"} ELSE {})
       \cup (IF TextOf(data, "house_type") = JStr("pucca") /\ Ge(Count(data, "num_rooms").v, Whole(3))
             THEN {"Pucca house with 3+ rooms"} ELSE {})
       \cup (IF Ge(Count(data, "total_land_acres").v, Num(25, 10))
             THEN {"Owns 2.5+ acres land"} ELSE {})

inclusion_met(data) == FlagsMet(INCLUSION_FLAGS, data)

deprivation_met(data) ==
    (IF /\ TextOf(data, "house_type") \in {JStr("kucha"), JStr("houseless"), JStr("temporary_plastic")}
        /\ Le(Count(data, "num_rooms").v, One)
     THEN {"One room kucha house"} ELSE {})
       \cup (IF EqualsZero(Count(data, "adults_16_59"))
             THEN {"No adult member (16-59)"} ELSE {})
       \cup (IF FlagSet(data, "is_female_headed") /\ EqualsZero(Count(data, "adult_males_16_59"))
             THEN {"Female-headed, no adult male"} ELSE {})
       \cup (IF FlagSet(data, "has_disabled_member") THEN {"Has disabled member"} ELSE {})
       \cup (IF EqualsZero(Count(data, "literate_adults_above_25"))
             THEN {"No literate adult above 25"} ELSE {})
       \cup (IF /\ EqualsZero(Count(data, "total_land_acres"))
                /\ TextOf(data, "primary_occupation") \in {JStr("agricultural_labor"), JStr("casual_labor"),
                                         JStr("non_agricultural_labor")}
             THEN {"Landless manual/casual labor"} ELSE {})
       \cup (IF TextOf(data, "social_category") \in {JStr("SC"), JStr("ST")}
             THEN {"SC/ST household"} ELSE {})
       \cup (IF Lt(Count(data, "highest_earner_monthly").v, Whole(5000))
             THEN {"Low monthly income"} ELSE {})

\* analyze_secc_criteria for a body on which it does not raise.
analyze_secc_criteria(data) ==
    LET has_exclusion == exclusion_met(data) # {}
        has_inclusion == inclusion_met(data) # {}
        deprivation_count == Cardinality(deprivation_met(data))
        secc == IF has_inclusion THEN << "BPL", "Automatic Inclusion" >>
                ELSE IF has_exclusion THEN << "APL", "Automatic Exclusion" >>
                ELSE IF deprivation_count >= 1 THEN << "BPL", "deprivation indicator(s)" >>
                ELSE << "APL", "No deprivation indicators" >>
    IN  [ secc_classification |-> secc[1],
          secc_reason |-> secc[2],
          has_exclusion |-> has_exclusion,
          has_inclusion |-> has_inclusion,
          deprivation_count |-> deprivation_count,
          exclusion_met |-> exclusion_met(data),
          inclusion_met |-> inclusion_met(data),
          deprivation_met |-> deprivation_met(data) ]

\* ModelPredictor.predict: `out` is what the model answers, `raises` holds
\* when preprocess or the model raises.
PredictFailed == [success |-> FALSE, classification |-> "", confidence |-> None]

predict(predictor, raises, out) ==
    IF ~predictor.is_loaded \/ raises THEN PredictFailed
    ELSE [ success |-> TRUE,
           classification |-> IF out.predict = 1 THEN "APL" ELSE "BPL",
           confidence |-> Round2(Mul(MaxNum(out.proba, Sub(One, out.proba)), Whole(100))) ]

\* The if / elif chain of classify_household with the model asked first.
FinalModelFirst(secc, ml) ==
    IF ml.success /\ ml.classification # ""
    THEN << ml.classification, "ML model prediction" >>
    ELSE IF secc.has_inclusion
    THEN << "BPL", "Automatic inclusion criteria met" >>
    ELSE IF secc.has_exclusion
    THEN << "APL", "Automatic exclusion criteria met" >>
    ELSE << secc.secc_classification, secc.secc_reason >>

\* The if / elif chain of classify_household: final_classification, reason.
Final(secc, ml) ==
    IF secc.has_inclusion
    THEN << "BPL", "Automatic inclusion criteria met" >>
    ELSE IF secc.has_exclusion
    THEN << "APL", "Automatic exclusion criteria met" >>
    ELSE IF ml.success /\ ml.classification # ""
    THEN << ml.classification, "ML model prediction" >>
    ELSE << secc.secc_classification, secc.secc_reason >>

\* The priority get_recommendation gives.
get_recommendation(classification, secc) ==
    IF classification = "BPL"
    THEN (IF secc.has_inclusion \/ secc.deprivation_count >= 3 THEN "HIGH" ELSE "MEDIUM")
    ELSE "LOW"

NoLocals == [status |-> 0]

\* classify_household for body `data` when the model answers `out` (or
\* raises): the
\* status, and for 200 the fields of the response and the locals.
classify_household(predictor, data, raises, out) ==
    IF DOMAIN data = {} THEN [status |-> 400]
    ELSE IF SeccRaises(data) THEN [status |-> 500]
    ELSE LET ml == predict(predictor, raises, out)
             secc == analyze_secc_criteria(data)
             final == Final(secc, ml)
         IN  [ status |-> 200,
               classification |-> final[1],
               reason |-> final[2],
               ml_result |-> ml,
               secc_result |-> secc,
               recommendation |-> get_recommendation(final[1], secc) ]

\* The bodies sent: each part is left out or given.
BodyParts ==
    << {EmptyDict, [is_houseless |-> JNum(One)], [is_houseless |-> JBool(TRUE)],
        [is_houseless |-> JStr("1")]},
       {EmptyDict, [owns_two_wheeler |-> JNum(One)]},
       {EmptyDict, [kcc_limit |-> JNum(Whole(50000))], [kcc_limit |-> JNull]},
       {EmptyDict, [house_type |-> JStr("pucca"), num_rooms |-> JNum(Whole(3))]},
       {EmptyDict, [adults_16_59 |-> JNum(Whole(2)),
                    literate_adults_above_25 |-> JNum(One),
                    highest_earner_monthly |-> JNum(Whole(6000))]} >>

Bodies ==
    {Merge(Merge(Merge(Merge(a, b), c), d), e) :
        a \in BodyParts[1], b \in BodyParts[2], c \in BodyParts[3],
        d \in BodyParts[4], e \in BodyParts[5]}

InitApi ==
    /\ pc = "import"
    /\ at = 0
    /\ rejected = NoResponse
    /\ odd = 0
    /\ worker_data = EmptyDict
    /\ income_data = EmptyDict
    /\ pattern_data = EmptyDict
    /\ loc = NoLocals
    /\ detector = NewDetector
    /\ ml_available = FALSE
    /\ ml_result = NoResult
    /\ rule_anomalies = << >>
    /\ shown = NothingShown
    /\ hash_seed \in HashSeeds
    /\ typed = EmptyDict

\* predictor = ModelPredictor(); model_loaded = predictor.load()
ApiLoad ==
    /\ pc = "import"
    /\ \E failing \in LoadFailures :
          LET res == LoadInto(detector, "classifier", failing)
          IN  /\ detector' = res.detector
              /\ ml_available' = res.returns
    /\ pc' = "serving"
    /\ UNCHANGED << hash_seed, typed, at, rejected, odd, worker_data, income_data,
                    pattern_data, loc, ml_result, rule_anomalies, shown >>

\* POST /classify
Classify ==
    /\ pc = "serving"
    /\ \E data \in Bodies, raises \in BOOLEAN, out \in ModelOutputs("classifier") :
          /\ typed' = data
          /\ loc' = classify_household(detector, data, raises, out)
    /\ pc' = "responded"
    /\ UNCHANGED << hash_seed, at, rejected, odd, worker_data, income_data, pattern_data,
                    detector, ml_available, ml_result, rule_anomalies, shown >>

\* The server waits for the next request.
ServeNext ==
    /\ pc = "responded"
    /\ pc' = "serving"
    /\ loc' = NoLocals
    /\ typed' = EmptyDict
    /\ UNCHANGED << hash_seed, at, rejected, odd, worker_data, income_data, pattern_data,
                    detector, ml_available, ml_result, rule_anomalies, shown >>

NextApi == ApiLoad \/ Classify \/ ServeNext

SpecApi == InitApi /\ [][NextApi]_vars

====
